---- MODULE Spec2Model ----
(* Certificate generator: the layout arithmetic shared by the preview        *)
(* handlers (functions/api/preview.js and its variants) and the canvas       *)
(* stage (CertificateStage.jsx, lib/templates.js, the stage exporter).       *)
EXTENDS Integers, Sequences, FiniteSets, TLC

VARIABLES
  fit,            \* the running call of fitTextSize
  posCall,        \* the last call of posToPdf and its result
  posPrev,        \* the call of posToPdf before it
  stageBg,        \* the background image node of the canvas stage
  pageBg,         \* the background drawn on the PDF page
  http,           \* the request a server handler received and its response
  templateCache,  \* TEMPLATE_BYTES_CACHE: the template URLs already fetched
  certsBucket,    \* the objects stored in env.CERTS_BUCKET
  stageExport,    \* the last export made from the canvas stage
  hexCall,        \* the last call of hexToRgb01 and its result
  editor,         \* the editor UI: field positions and the drag in progress
  doc,            \* the PDF document the last preview request built
  docPrev,        \* the document of the preview request before it
  fetches,        \* the running calls of fetchTemplateBytesCached
  snap,           \* the stage, its selection and the running stage export
  texts,          \* the text states of the editor and the field being edited
  upload,         \* upload mode: rows, error and the file reads in flight
  dl,             \* the last request to the download endpoint and its answer
  listing         \* the last answer of the template listing endpoint

vars == <<fit, posCall, posPrev, stageBg, pageBg, http, templateCache, certsBucket,
          stageExport, hexCall, editor, doc, docPrev,
          fetches, snap, texts, upload, dl, listing>>

posVars == <<posCall, posPrev>>

coverVars == <<stageBg, pageBg>>

serverVars == <<http, templateCache, certsBucket>>

uiVars == <<hexCall, editor>>

drawVars == <<doc, docPrev>>

lateVars == <<fetches, snap, texts, upload, dl, listing>>

(* ------------------------------------------------------------------------ *)
(* Bounds of the model.                                                      *)
(* ------------------------------------------------------------------------ *)
\* significand width of the modelled binary floating point (JS: 53)
MantBits == 11
\* font sizes range over 0..MaxSize
MaxSize == 3
\* maxWidth ranges over 0..MaxWidth, measured widths over 0..MaxWidth+1
MaxWidth == 2
\* longest list of recipient rows in a request or an export
MaxRows == 6

(* ------------------------------------------------------------------------ *)
(* JavaScript numbers: binary floating point, round to nearest, ties to     *)
(* even, with MantBits significant bits and an unbounded exponent.          *)
(* A finite value is m * 2^e with m odd (or m = 0, e = 0).                   *)
(* ------------------------------------------------------------------------ *)
RECURSIVE Pow2(_)
Pow2(n) == IF n <= 0 THEN 1 ELSE 2 * Pow2(n - 1)

Abs(i) == IF i < 0 THEN 0 - i ELSE i

Sign(i) == IF i < 0 THEN 0 - 1 ELSE 1

NaN == [k |-> "nan", m |-> 0, e |-> 0]

PosInf == [k |-> "inf", m |-> 1, e |-> 0]

NegInf == [k |-> "inf", m |-> 0 - 1, e |-> 0]

RECURSIVE Canon(_, _)
Canon(m, e) ==
  IF m = 0 THEN [k |-> "fin", m |-> 0, e |-> 0]
  ELSE IF Abs(m) % 2 = 0 THEN Canon(Sign(m) * (Abs(m) \div 2), e + 1)
  ELSE [k |-> "fin", m |-> m, e |-> e]

\* the number i/2^s, which is exactly representable when i fits MantBits bits
Dyadic(i, s) == Canon(i, 0 - s)

Int2F(i) == Canon(i, 0)

Zero == Int2F(0)

One == Int2F(1)

Half == Dyadic(1, 1)

IsFin(x) == x.k = "fin"

IsNaN(x) == x.k = "nan"

RECURSIVE BitLen(_)
BitLen(a) == IF a = 0 THEN 0 ELSE 1 + BitLen(a \div 2)

\* sign of the exact value of a finite number: -1, 0, 1
Sgn(x) == IF x.m = 0 THEN 0 ELSE Sign(x.m)

\* exact comparison of two finite numbers: -1, 0, 1 as x < y, x = y, x > y
CmpMag(x, y) ==
  \* both positive and finite
  LET tx == BitLen(x.m) + x.e
      ty == BitLen(y.m) + y.e
      lo == IF x.e < y.e THEN x.e ELSE y.e
      ax == x.m * Pow2(x.e - lo)
      ay == y.m * Pow2(y.e - lo)
  IN  IF tx < ty THEN 0 - 1
      ELSE IF tx > ty THEN 1
      ELSE IF ax < ay THEN 0 - 1
      ELSE IF ax > ay THEN 1 ELSE 0

Neg(x) == IF IsNaN(x) THEN NaN ELSE [k |-> x.k, m |-> 0 - x.m, e |-> x.e]

Cmp(x, y) ==
  IF Sgn(x) # Sgn(y) THEN (IF Sgn(x) < Sgn(y) THEN 0 - 1 ELSE 1)
  ELSE IF Sgn(x) = 0 THEN 0
  ELSE IF Sgn(x) = 1 THEN CmpMag(x, y)
  ELSE CmpMag(Neg(y), Neg(x))

\* order on numbers with the infinities; false whenever a NaN is involved
Rank(x) == IF x.k = "inf" THEN x.m ELSE 0

Lt(x, y) ==
  IF IsNaN(x) \/ IsNaN(y) THEN FALSE
  ELSE IF IsFin(x) /\ IsFin(y) THEN Cmp(x, y) < 0
  ELSE Rank(x) < Rank(y)

Le(x, y) == ~IsNaN(x) /\ ~IsNaN(y) /\ (Lt(x, y) \/ x = y)

\* round sgn * a * 2^e (plus a nonzero tail below the last bit when sticky)
RECURSIVE RoundME(_, _, _, _)
RoundME(sgn, a, e, sticky) ==
  IF a >= Pow2(MantBits + 1)
    THEN RoundME(sgn, a \div 2, e + 1, sticky \/ (a % 2 = 1))
  ELSE IF a >= Pow2(MantBits)
    THEN LET q == a \div 2
             up == (a % 2 = 1) /\ (sticky \/ (q % 2 = 1))
         IN  Canon(sgn * (IF up THEN q + 1 ELSE q), e + 1)
  ELSE Canon(sgn * a, e)

\* exact product and difference of finite numbers (no rounding)
XMul(x, y) == Canon(x.m * y.m, x.e + y.e)

XSub(x, y) ==
  LET lo == IF x.e < y.e THEN x.e ELSE y.e
  IN  Canon(x.m * Pow2(x.e - lo) - y.m * Pow2(y.e - lo), lo)

\* x * 2^n, exact
Scale2(x, n) == Canon(x.m, x.e + n)

Round(x) == RoundME(Sign(x.m), Abs(x.m), x.e, FALSE)

\* JS  x * y
FMul(x, y) ==
  IF IsNaN(x) \/ IsNaN(y) THEN NaN
  ELSE IF IsFin(x) /\ IsFin(y) THEN Round(XMul(x, y))
  ELSE IF Sgn(x) = 0 \/ Sgn(y) = 0 THEN NaN
  ELSE IF Sign(x.m) * Sign(y.m) > 0 THEN PosInf ELSE NegInf

\* JS  x - y
FSub(x, y) ==
  IF IsNaN(x) \/ IsNaN(y) THEN NaN
  ELSE IF IsFin(x) /\ IsFin(y) THEN Round(XSub(x, y))
  ELSE IF IsFin(y) THEN x
  ELSE IF IsFin(x) THEN Neg(y)
  ELSE IF x = y THEN NaN ELSE x

RECURSIVE ScaleUp(_, _, _)
ScaleUp(a, b, n) ==
  IF a >= b * Pow2(MantBits + 1) THEN <<a, n>> ELSE ScaleUp(2 * a, b, n + 1)

\* JS  x / y
FDiv(x, y) ==
  IF IsNaN(x) \/ IsNaN(y) THEN NaN
  ELSE IF IsFin(x) /\ IsFin(y) THEN
    IF y.m = 0 THEN (IF x.m = 0 THEN NaN ELSE IF x.m > 0 THEN PosInf ELSE NegInf)
    ELSE IF x.m = 0 THEN Zero
    ELSE LET su == ScaleUp(Abs(x.m), Abs(y.m), 0)
             q  == su[1] \div Abs(y.m)
             r  == su[1] % Abs(y.m)
         IN  RoundME(Sign(x.m) * Sign(y.m), q, x.e - y.e - su[2], r # 0)
  ELSE IF IsFin(y) THEN (IF Sign(x.m) * (IF y.m < 0 THEN 0 - 1 ELSE 1) > 0 THEN PosInf ELSE NegInf)
  ELSE IF IsFin(x) THEN Zero
  ELSE NaN

\* JS  Math.max(x, y)  and  Math.min(x, y)
MathMax(x, y) == IF IsNaN(x) \/ IsNaN(y) THEN NaN ELSE IF Lt(x, y) THEN y ELSE x

MathMin(x, y) == IF IsNaN(x) \/ IsNaN(y) THEN NaN ELSE IF Lt(y, x) THEN y ELSE x

\* JS  Number.isFinite(x)
NumberIsFinite(x) == IsFin(x)

(* ------------------------------------------------------------------------ *)
(* Background cover-fit: coverRect (client) and drawBackgroundCover (server) *)
(* ------------------------------------------------------------------------ *)
\* lib/constants.js SIZES and pageSize(paperSize): landscape page boxes
PageSizes == {<<842, 595>>, <<792, 612>>}

\* intrinsic pixel widths and heights of the background images
ImgDims == {1, 3, 17, 23, 500, 1000}

coverRectContain(imgW, imgH, boxW, boxH) ==
  LET scale == MathMin(FDiv(boxW, imgW), FDiv(boxH, imgH))
      w == FMul(imgW, scale)
      h == FMul(imgH, scale)
  IN  [x |-> FDiv(FSub(boxW, w), Int2F(2)), y |-> FDiv(FSub(boxH, h), Int2F(2)),
       w |-> w, h |-> h]

coverRect(imgW, imgH, boxW, boxH) ==
  LET scale == MathMax(FDiv(boxW, imgW), FDiv(boxH, imgH))
      w == FMul(imgW, scale)
      h == FMul(imgH, scale)
      x == FDiv(FSub(boxW, w), Int2F(2))
      y == FDiv(FSub(boxH, h), Int2F(2))
  IN  [x |-> x, y |-> y, w |-> w, h |-> h]

drawBackgroundCoverUncentred(imgW, imgH, pageW, pageH) ==
  LET scale == MathMax(FDiv(pageW, imgW), FDiv(pageH, imgH))
  IN  [x |-> Zero, y |-> Zero, width |-> FMul(imgW, scale), height |-> FMul(imgH, scale)]

\* the options object handed to page.drawImage
drawBackgroundCover(imgW, imgH, pageW, pageH) ==
  LET scale == MathMax(FDiv(pageW, imgW), FDiv(pageH, imgH))
      drawW == FMul(imgW, scale)
      drawH == FMul(imgH, scale)
      x == FDiv(FSub(pageW, drawW), Int2F(2))
      y == FDiv(FSub(pageH, drawH), Int2F(2))
  IN  [x |-> x, y |-> y, width |-> drawW, height |-> drawH]

(* ------------------------------------------------------------------------ *)
(* JavaScript values as they reach the helpers: undefined, null, numbers,   *)
(* strings.                                                                  *)
(* ------------------------------------------------------------------------ *)
JsUndefined == [t |-> "undefined", n |-> NaN, s |-> ""]

JsNull == [t |-> "null", n |-> NaN, s |-> ""]

JsNum(x) == [t |-> "number", n |-> x, s |-> ""]

JsStr(str) == [t |-> "string", n |-> NaN, s |-> str]

\* JS  a ?? b
Coalesce(a, b) == IF a.t \in {"undefined", "null"} THEN b ELSE a

(* ------------------------------------------------------------------------ *)
(* Text fitter: fitTextSize(font, text, maxWidth, startSize, minSize)        *)
(* ------------------------------------------------------------------------ *)
Sizes == 0..MaxSize

Widths == 0..(MaxWidth + 1)

\* a font is its width table for the one non-empty text of the model
Fonts == [Sizes -> Widths]

FitTexts == {JsNull, JsUndefined, JsStr(""), JsStr("Ann")}

\* font.widthOfTextAtSize(t, size): no glyphs, no width
widthOfTextAtSize(font, t, size) ==
  IF t = "" THEN 0 ELSE IF size \in DOMAIN font THEN font[size] ELSE 0

\* String(text): what a missing "?? ''" would produce
TextOfNoCoalesce(text) ==
  IF text.t = "string" THEN text.s ELSE text.t

\* const t = (text ?? "").toString()
TextOf(text) == Coalesce(text, JsStr("")).s

LoopCondFloorOffByOne(f) ==
  f.size >= f.minSize /\ widthOfTextAtSize(f.font, f.t, f.size) > f.maxWidth

LoopCondShrinkOnEqual(f) ==
  f.size > f.minSize /\ widthOfTextAtSize(f.font, f.t, f.size) >= f.maxWidth

\* while (size > minSize && font.widthOfTextAtSize(t, size) > maxWidth)
LoopCond(f) ==
  f.size > f.minSize /\ widthOfTextAtSize(f.font, f.t, f.size) > f.maxWidth

DecrementByTwo(size) == size - 2

\* size -= 1
Decrement(size) == size - 1

FitIdle ==
  [pc |-> "idle", font |-> [sz \in Sizes |-> 0], text |-> JsStr(""), maxWidth |-> 0,
   startSize |-> 0, minSize |-> 0, t |-> "", size |-> 0]

\* a call of fitTextSize; every call site passes whole sizes with
\* minSize <= startSize: (38, 18), (34, 18), (18, 11)
FitCalls ==
  { c \in [pc : {"call"}, font : Fonts, text : FitTexts, maxWidth : 0..MaxWidth,
           startSize : Sizes, minSize : Sizes, t : {""}, size : {0}] :
       c.minSize <= c.startSize }

\* function entry: t and size are initialised
FitEnter ==
  /\ fit.pc = "call"
  /\ fit' = [fit EXCEPT !.t = TextOf(fit.text), !.size = fit.startSize, !.pc = "loop"]
  /\ UNCHANGED <<posVars, coverVars, serverVars, stageExport, uiVars, drawVars, lateVars>>

\* one iteration of the while loop
FitIterate ==
  /\ fit.pc = "loop"
  /\ LoopCond(fit)
  /\ fit' = [fit EXCEPT !.size = Decrement(fit.size)]
  /\ UNCHANGED <<posVars, coverVars, serverVars, stageExport, uiVars, drawVars, lateVars>>

\* the loop condition fails: return size
FitReturn ==
  /\ fit.pc = "loop"
  /\ ~LoopCond(fit)
  /\ fit' = [fit EXCEPT !.pc = "done"]
  /\ UNCHANGED <<posVars, coverVars, serverVars, stageExport, uiVars, drawVars, lateVars>>

(* ------------------------------------------------------------------------ *)
(* Coordinate mapper: clamp01 and posToPdf                                   *)
(* ------------------------------------------------------------------------ *)
\* Number(str) for the strings of the model
StringToNumber(str) ==
  CASE str = "" -> Zero
    [] str = "0.75" -> Dyadic(3, 2)
    [] OTHER -> NaN

\* JS  Number(v)
Number(v) ==
  CASE v.t = "number" -> v.n
    [] v.t = "null" -> Zero
    [] v.t = "string" -> StringToNumber(v.s)
    [] OTHER -> NaN

\* JS  o?.x  and  o?.y : undefined unless o is an object holding the property
OptX(o) == IF o.t = "object" THEN o.x ELSE JsUndefined

OptY(o) == IF o.t = "object" THEN o.y ELSE JsUndefined

clamp01NoFiniteCheck(n) == MathMax(Zero, MathMin(One, n))

clamp01(n) ==
  IF ~NumberIsFinite(n) THEN Zero
  ELSE MathMax(Zero, MathMin(One, n))

posToPdfNoFlip(posObj, w, h) ==
  [x |-> FMul(clamp01(Number(Coalesce(OptX(posObj), JsNum(Half)))), w),
   y |-> FMul(clamp01(Number(Coalesce(OptY(posObj), JsNum(Half)))), h)]

posToPdfDefaultZero(posObj, w, h) ==
  LET x == FMul(clamp01(Number(Coalesce(OptX(posObj), JsNum(Zero)))), w)
      yTop == clamp01(Number(Coalesce(OptY(posObj), JsNum(Zero))))
  IN  [x |-> x, y |-> FMul(FSub(One, yTop), h)]

posToPdf(posObj, w, h) ==
  LET x == FMul(clamp01(Number(Coalesce(OptX(posObj), JsNum(Half)))), w)
      yTop == clamp01(Number(Coalesce(OptY(posObj), JsNum(Half))))
      y == FMul(FSub(One, yTop), h)
  IN  [x |-> x, y |-> y]

\* what a pos_json entry can hold in x or y
CoordVals ==
  { JsUndefined, JsNull, JsNum(NaN), JsNum(PosInf), JsStr("abc"), JsStr("0.75"),
    JsNum(Dyadic(0 - 1, 1)), JsNum(Zero), JsNum(Dyadic(5, 4)), JsNum(One),
    JsNum(Dyadic(3, 1)) }

JsObj(x, y) == [t |-> "object", x |-> x, y |-> y]

\* pos?.certTitle and the like: an object, or nothing at all
PosObjs ==
  { JsObj(x, y) : x \in CoordVals, y \in CoordVals } \cup
  { [t |-> "undefined", x |-> JsUndefined, y |-> JsUndefined] }

PosNone ==
  [pc |-> "none", posObj |-> JsObj(JsUndefined, JsUndefined), w |-> Zero, h |-> Zero,
   out |-> [x |-> Zero, y |-> Zero]]

\* one call posToPdf(posObj, w, h) with [w, h] = pageSize(paperSize); the
\* call before it is kept for comparison
PosToPdfCall ==
  /\ posPrev.pc = "none"
  /\ \E o \in PosObjs, sz \in PageSizes :
       posCall' = [pc |-> "done", posObj |-> o, w |-> Int2F(sz[1]), h |-> Int2F(sz[2]),
                   out |-> posToPdf(o, Int2F(sz[1]), Int2F(sz[2]))]
  /\ posPrev' = posCall
  /\ UNCHANGED <<fit, coverVars, serverVars, stageExport, uiVars, drawVars, lateVars>>

(* ------------------------------------------------------------------------ *)
(* Background drawing on the stage and on the PDF page                       *)
(* ------------------------------------------------------------------------ *)
BgNone ==
  [pc |-> "none", imgW |-> 0, imgH |-> 0, boxW |-> 0, boxH |-> 0,
   x |-> Zero, y |-> Zero, width |-> Zero, height |-> Zero]

\* CertificateStage: <KImage x={r.x} y={r.y} width={r.w} height={r.h}/>
RenderStageBackground ==
  /\ stageBg.pc = "none"
  /\ \E iw \in ImgDims, ih \in ImgDims, sz \in PageSizes :
       LET r == coverRect(Int2F(iw), Int2F(ih), Int2F(sz[1]), Int2F(sz[2]))
       IN  stageBg' = [pc |-> "drawn", imgW |-> iw, imgH |-> ih, boxW |-> sz[1],
                       boxH |-> sz[2], x |-> r.x, y |-> r.y, width |-> r.w, height |-> r.h]
  /\ UNCHANGED <<fit, posVars, pageBg, serverVars, stageExport, uiVars, drawVars, lateVars>>

\* preview handler: drawBackgroundCover(page, bgImg, w, h)
DrawPageBackground ==
  /\ pageBg.pc = "none"
  /\ \E iw \in ImgDims, ih \in ImgDims, sz \in PageSizes :
       LET r == drawBackgroundCover(Int2F(iw), Int2F(ih), Int2F(sz[1]), Int2F(sz[2]))
       IN  pageBg' = [pc |-> "drawn", imgW |-> iw, imgH |-> ih, boxW |-> sz[1],
                      boxH |-> sz[2], x |-> r.x, y |-> r.y, width |-> r.width,
                      height |-> r.height]
  /\ UNCHANGED <<fit, posVars, stageBg, serverVars, stageExport, uiVars, drawVars, lateVars>>

(* ------------------------------------------------------------------------ *)
(* Recipient rows: rows_json, CSV files, normalisation and the preview cap   *)
(* ------------------------------------------------------------------------ *)
MAX_PREVIEW == 5

Min(a, b) == IF a < b THEN a ELSE b

\* JS  seq.slice(0, n)  for n >= 0
Slice(seq, n) == SubSeq(seq, 1, Min(n, Len(seq)))

\* JS  (v || "").toString()  for undefined, null and strings
OrEmpty(v) == IF v.t = "string" THEN v.s ELSE ""

RawRow(name, award, title, date, issuer) ==
  [name |-> name, award |-> award, title |-> title, date |-> date, issuer |-> issuer]

RawAnn == RawRow(JsStr("Ann"), JsStr("Gold"), JsUndefined, JsStr("2026-01-01"), JsUndefined)

RawBob == RawRow(JsStr("Bob"), JsUndefined, JsStr("Silver"), JsUndefined, JsStr("ACME"))

RawNoName == RawRow(JsStr(""), JsStr("Gold"), JsUndefined, JsUndefined, JsUndefined)

RawEmptyAward == RawRow(JsStr("Dan"), JsStr(""), JsStr("Bronze"), JsUndefined, JsUndefined)

\* the elements a rows_json array is built from
RawRowPool == {RawAnn, RawBob, RawNoName}

SeqsUpTo(S, n) == UNION { [1..k -> S] : k \in 0..n }

\* .map((r) => ({ name: (r?.name || "").toString(), award: (r?.award ??
\*   r?.title ?? "").toString(), date: ..., issuer: ... }))
NormalizeRow(r) ==
  [name |-> OrEmpty(r.name),
   award |-> Coalesce(Coalesce(r.award, r.title), JsStr("")).s,
   date |-> OrEmpty(r.date),
   issuer |-> OrEmpty(r.issuer)]

\* .filter((r) => r.name && r.award)
Accepted(r) == r.name # "" /\ r.award # ""

NormalizeAll(rows) == [i \in 1..Len(rows) |-> NormalizeRow(rows[i])]

PreviewRowsSliceBeforeFilter(rows) ==
  SelectSeq(Slice(NormalizeAll(rows), MAX_PREVIEW), Accepted)

\* rows.map(...).filter(...).slice(0, MAX_PREVIEW)
PreviewRows(rows) == Slice(SelectSeq(NormalizeAll(rows), Accepted), MAX_PREVIEW)

\* a CSV text is its non-empty lines, a line its trimmed cells; the header
\* cells are lower-cased
CsvHeaders == {<<"name", "title">>, <<"title", "name", "date", "issuer">>}

CsvLinePool == {<<"Ann", "Gold">>, <<"Silver", "Bob", "2026-02-02", "ACME">>, <<"", "Gold">>}

CsvTexts ==
  { <<h>> \o body : h \in CsvHeaders, body \in SeqsUpTo(CsvLinePool, MaxRows) } \cup
  { <<>>, <<<<"name", "date">>, <<"Ann", "2026-01-01">>>> }

\* header.indexOf(col), 0-based, -1 when absent
IndexOf(header, col) ==
  IF \E i \in 1..Len(header) : header[i] = col
  THEN (CHOOSE i \in 1..Len(header) :
          header[i] = col /\ \A j \in 1..(i - 1) : header[j] # col) - 1
  ELSE 0 - 1

\* cols[index] || ""
Cell(cols, index) == IF index >= 0 /\ index + 1 <= Len(cols) THEN cols[index + 1] ELSE ""

CsvRowOf(line, ni, ti, di, ii) ==
  [name |-> Cell(line, ni), award |-> Cell(line, ti),
   date |-> IF di >= 0 THEN Cell(line, di) ELSE "",
   issuer |-> IF ii >= 0 THEN Cell(line, ii) ELSE ""]

\* parseCsv with the issuer column (preview.js:33, the R2 variant)
parseCsv(text) ==
  IF Len(text) < 2 THEN [error |-> "CSV must include header + at least 1 row.", rows |-> <<>>]
  ELSE LET header == text[1]
           ni == IndexOf(header, "name")
           ti == IndexOf(header, "title")
           di == IndexOf(header, "date")
           ii == IndexOf(header, "issuer")
           all == [i \in 1..(Len(text) - 1) |-> CsvRowOf(text[i + 1], ni, ti, di, ii)]
           rows == SelectSeq(all, Accepted)
       IN  IF ni = 0 - 1 \/ ti = 0 - 1
             THEN [error |-> "CSV must include headers: name,title", rows |-> <<>>]
           ELSE IF Len(rows) = 0
             THEN [error |-> "No valid rows found (need name + title).", rows |-> <<>>]
           ELSE [error |-> "", rows |-> rows]

\* parseCsv of the file-only variants: rows are { name, title, date }
parseCsvBasic(text) ==
  IF Len(text) < 2 THEN [error |-> "CSV must include header + at least 1 row.", rows |-> <<>>]
  ELSE LET header == text[1]
           ni == IndexOf(header, "name")
           ti == IndexOf(header, "title")
           di == IndexOf(header, "date")
           all == [i \in 1..(Len(text) - 1) |-> CsvRowOf(text[i + 1], ni, ti, di, 0 - 1)]
           rows == SelectSeq(all, Accepted)
       IN  IF ni = 0 - 1 \/ ti = 0 - 1
             THEN [error |-> "CSV must include headers: name,title", rows |-> <<>>]
           ELSE IF Len(rows) = 0
             THEN [error |-> "No valid rows found (need name + title).", rows |-> <<>>]
           ELSE [error |-> "", rows |-> rows]

\* a row parseCsv built, as the object the normalisation then reads
AsRaw(r) == RawRow(JsStr(r.name), JsStr(r.award), JsUndefined, JsStr(r.date), JsStr(r.issuer))

RowsJsonAbsent == [kind |-> "absent", rows |-> <<>>]

FileAbsent == [kind |-> "absent", csv |-> <<>>]

SampleCsv == <<<<"name", "title">>, <<"Ann", "Gold">>, <<"Bob", "Silver">>>>

\* rows_json: absent or empty, not parseable, JSON that is no array, an array
RowsJsonEdge ==
  { RowsJsonAbsent, [kind |-> "malformed", rows |-> <<>>], [kind |-> "object", rows |-> <<>>] }
    \cup { [kind |-> "array", rows |-> rs] : rs \in SeqsUpTo(RawRowPool \cup {RawEmptyAward}, 1) }

\* the form field "file": absent, a plain string, an uploaded file
FileEdge == { FileAbsent, [kind |-> "string", csv |-> <<>>], [kind |-> "file", csv |-> SampleCsv] }

\* the row sources of a request: every array of rows, every CSV file, and the
\* combinations of the edge cases
RowSources ==
  { [rows_json |-> [kind |-> "array", rows |-> rs], file |-> FileAbsent] :
      rs \in SeqsUpTo(RawRowPool, MaxRows) } \cup
  { [rows_json |-> RowsJsonAbsent, file |-> [kind |-> "file", csv |-> c]] : c \in CsvTexts } \cup
  { [rows_json |-> rj, file |-> f] : rj \in RowsJsonEdge, f \in FileEdge }

\* the CSV file put before rows_json
ResolveRowsFileFirst(src) ==
  IF src.file.kind = "file" THEN
    LET parsed == parseCsv(src.file.csv)
    IN  IF parsed.error # "" THEN [status |-> 400, rows |-> <<>>, fileRead |-> TRUE]
        ELSE [status |-> 200, rows |-> [i \in 1..Len(parsed.rows) |-> AsRaw(parsed.rows[i])],
              fileRead |-> TRUE]
  ELSE IF src.rows_json.kind \in {"absent", "object"}
    THEN [status |-> 400, rows |-> <<>>, fileRead |-> FALSE]
  ELSE [status |-> 200, rows |-> src.rows_json.rows, fileRead |-> FALSE]

\* the outcome of "resolve rows" and "normalize + limit": a 400, or the rows
ResolveRows(src) ==
  IF src.rows_json.kind # "absent" THEN
    IF src.rows_json.kind = "object"
      THEN [status |-> 400, rows |-> <<>>, fileRead |-> FALSE]
      ELSE [status |-> 200, rows |-> src.rows_json.rows, fileRead |-> FALSE]
  ELSE IF src.file.kind # "file" THEN [status |-> 400, rows |-> <<>>, fileRead |-> FALSE]
  ELSE LET parsed == parseCsv(src.file.csv)
       IN  IF parsed.error # "" THEN [status |-> 400, rows |-> <<>>, fileRead |-> TRUE]
           ELSE [status |-> 200, rows |-> [i \in 1..Len(parsed.rows) |-> AsRaw(parsed.rows[i])],
                 fileRead |-> TRUE]

\* one page per row
PagesOf(rows) == [i \in 1..Len(rows) |-> [row |-> rows[i]]]

Respond(status, pages) == [status |-> status, pages |-> pages, fileRead |-> FALSE]

\* a response sent after the rows were resolved: fileRead tells whether
\* file.text() was awaited
RespondRead(status, pages, fileRead) ==
  [status |-> status, pages |-> pages, fileRead |-> fileRead]

(* ------------------------------------------------------------------------ *)
(* Server handlers                                                           *)
(* ------------------------------------------------------------------------ *)
\* one operation is observed per behaviour: a request or an export
Idle == http.pc = "none" /\ stageExport.pc = "none"

HttpNone ==
  [pc |-> "none", handler |-> "", src |-> [rows_json |-> RowsJsonAbsent, file |-> FileAbsent],
   status |-> 0, pages |-> <<>>, fileRead |-> FALSE]

PaperSizes == {"A4", "LETTER", "A3"}

\* TEMPLATES[template_id]: both paper sizes of a template share one URL
TemplateUrl(id) ==
  CASE id = "kids-fantasy-1" -> "cdn/kids-fantasy-1.png"
    [] id = "professional" -> "cdn/professional.png"
    [] OTHER -> ""

TemplateUrls == {"cdn/kids-fantasy-1.png", "cdn/professional.png"}

ImageFormats == {"png", "jpg"}

\* TEMPLATE_BYTES_CACHE survives between requests: url -> bytes
CacheStates ==
  { [u \in {} |-> "png"] } \cup
  { [u \in {url} |-> fmt] : url \in TemplateUrls, fmt \in ImageFormats }

\* the environment of a CDN preview request: what fetch(url) answers
CdnEnvs == [fetchOk : BOOLEAN, fetched : ImageFormats]

CdnRequests ==
  { [src |-> sc, paper_size |-> "A4", template_id |-> "kids-fantasy-1",
     env |-> [fetchOk |-> TRUE, fetched |-> "png"]] : sc \in RowSources } \cup
  { [src |-> sc, paper_size |-> ps, template_id |-> tid, env |-> ev] :
      sc \in { [rows_json |-> [kind |-> "array", rows |-> <<RawAnn, RawBob>>],
                file |-> FileAbsent] },
      ps \in PaperSizes, tid \in {"kids-fantasy-1", "professional", "nope"},
      ev \in CdnEnvs }

\* a cache that answers a hit with no bytes
fetchTemplateBytesCachedEmptyHit(cache, url, env) ==
  IF url \in DOMAIN cache THEN [ok |-> FALSE, bytes |-> "", cache |-> cache]
  ELSE IF ~env.fetchOk THEN [ok |-> FALSE, bytes |-> "", cache |-> cache]
  ELSE [ok |-> TRUE, bytes |-> env.fetched,
        cache |-> [u \in DOMAIN cache \cup {url} |->
                     IF u = url THEN env.fetched ELSE cache[u]]]

\* fetchTemplateBytesCached(url): [ok, bytes, cache']
fetchTemplateBytesCached(cache, url, env) ==
  IF url \in DOMAIN cache THEN [ok |-> TRUE, bytes |-> cache[url], cache |-> cache]
  ELSE IF ~env.fetchOk THEN [ok |-> FALSE, bytes |-> "", cache |-> cache]
  ELSE [ok |-> TRUE, bytes |-> env.fetched,
        cache |-> [u \in DOMAIN cache \cup {url} |->
                     IF u = url THEN env.fetched ELSE cache[u]]]

\* functions/api/preview.js onRequestPost (template from the CDN registry)
CdnPreview(req, cache) ==
  IF req.paper_size \notin {"A4", "LETTER"} THEN [resp |-> Respond(400, <<>>), cache |-> cache]
  ELSE IF TemplateUrl(req.template_id) = "" THEN [resp |-> Respond(400, <<>>), cache |-> cache]
  ELSE LET resolved == ResolveRows(req.src)
           rows == PreviewRows(resolved.rows)
           got == fetchTemplateBytesCached(cache, TemplateUrl(req.template_id), req.env)
           read == resolved.fileRead
       IN  IF resolved.status # 200
             THEN [resp |-> RespondRead(400, <<>>, read), cache |-> cache]
           ELSE IF Len(rows) = 0 THEN [resp |-> RespondRead(400, <<>>, read), cache |-> cache]
           ELSE IF ~got.ok THEN [resp |-> RespondRead(500, <<>>, read), cache |-> got.cache]
           ELSE IF got.bytes # "png"
             THEN [resp |-> RespondRead(500, <<>>, read), cache |-> got.cache]
           ELSE [resp |-> RespondRead(200, PagesOf(rows), read), cache |-> got.cache]

PreviewFromCdn ==
  /\ Idle
  /\ \E req \in CdnRequests :
       LET r == CdnPreview(req, templateCache)
       IN  /\ http' = [pc |-> "done", handler |-> "cdn", src |-> req.src,
                       status |-> r.resp.status, pages |-> r.resp.pages,
                       fileRead |-> r.resp.fileRead]
           /\ templateCache' = r.cache
  /\ UNCHANGED <<fit, posVars, coverVars, certsBucket, stageExport, uiVars, drawVars, lateVars>>

\* the environment of an R2 preview request: the stored template object
R2Envs == [exists : BOOLEAN, stored : ImageFormats]

R2Requests ==
  { [src |-> sc, paper_size |-> "LETTER", template_key |-> "templates/bg.png",
     env |-> [exists |-> TRUE, stored |-> "png"]] : sc \in RowSources } \cup
  { [src |-> sc, paper_size |-> ps, template_key |-> key, env |-> ev] :
      sc \in { [rows_json |-> [kind |-> "array", rows |-> <<RawAnn, RawBob>>],
                file |-> FileAbsent] },
      ps \in PaperSizes,
      key \in {"", "templates/bg.png", "templates/bg.jpg", "templates/bg.webp"},
      ev \in R2Envs } \cup
  { [src |-> [rows_json |-> rj, file |-> [kind |-> "file", csv |-> SampleCsv]],
     paper_size |-> "A4", template_key |-> "templates/bg.png",
     env |-> [exists |-> FALSE, stored |-> "png"]] :
      rj \in {RowsJsonAbsent, [kind |-> "object", rows |-> <<>>]} }

\* templateKey.toLowerCase().split(".").pop() for the keys of the model
ExtOf(key) ==
  CASE key = "templates/bg.png" -> "png"
    [] key = "templates/bg.jpg" -> "jpg"
    [] key = "templates/bg.webp" -> "webp"
    [] OTHER -> key

\* the handler without the test of the template's format
R2PreviewNoFormatCheck(req) ==
  IF req.template_key = "" THEN Respond(400, <<>>)
  ELSE IF req.paper_size \notin {"A4", "LETTER"} THEN Respond(400, <<>>)
  ELSE IF ~req.env.exists THEN Respond(404, <<>>)
  ELSE LET resolved == ResolveRows(req.src)
           rows == PreviewRows(resolved.rows)
           read == resolved.fileRead
       IN  IF resolved.status # 200 THEN RespondRead(400, <<>>, read)
           ELSE IF Len(rows) = 0 THEN RespondRead(400, <<>>, read)
           ELSE RespondRead(200, PagesOf(rows), read)

\* the preview handler that loads the template from R2 by template_key
R2Preview(req) ==
  IF req.template_key = "" THEN Respond(400, <<>>)
  ELSE IF req.paper_size \notin {"A4", "LETTER"} THEN Respond(400, <<>>)
  ELSE IF ~req.env.exists THEN Respond(404, <<>>)
  ELSE LET resolved == ResolveRows(req.src)
           rows == PreviewRows(resolved.rows)
           ext == ExtOf(req.template_key)
           embedded ==
             IF ext = "png" THEN req.env.stored = "png"
             ELSE IF ext = "jpg" \/ ext = "jpeg" THEN req.env.stored = "jpg"
             ELSE FALSE
           read == resolved.fileRead
       IN  IF resolved.status # 200 THEN RespondRead(400, <<>>, read)
           ELSE IF Len(rows) = 0 THEN RespondRead(400, <<>>, read)
           ELSE IF ~embedded THEN RespondRead(500, <<>>, read)
           ELSE RespondRead(200, PagesOf(rows), read)

PreviewFromR2 ==
  /\ Idle
  /\ \E req \in R2Requests :
       LET r == R2Preview(req)
       IN  http' = [pc |-> "done", handler |-> "r2", src |-> req.src,
                    status |-> r.status, pages |-> r.pages,
                    fileRead |-> r.fileRead]
  /\ UNCHANGED <<fit, posVars, coverVars, templateCache, certsBucket, stageExport, uiVars, drawVars, lateVars>>

\* the file-only handlers take the CSV file alone
CsvRequests ==
  { [src |-> [rows_json |-> RowsJsonAbsent, file |-> [kind |-> "file", csv |-> c]],
     paper_size |-> "A4"] : c \in CsvTexts } \cup
  { [src |-> [rows_json |-> RowsJsonAbsent, file |-> f], paper_size |-> ps] :
      f \in FileEdge, ps \in PaperSizes }

\* const rows = parsed.rows.slice(0, MAX_PREVIEW)
CsvPreviewRows(rows) == Slice(rows, MAX_PREVIEW)

\* both file-only handlers up to their loop: a 400, or the rows to render
CsvPreview(req) ==
  IF req.src.file.kind # "file" THEN Respond(400, <<>>)
  ELSE IF req.paper_size \notin {"A4", "LETTER"} THEN Respond(400, <<>>)
  ELSE LET parsed == parseCsvBasic(req.src.file.csv)
       IN  IF parsed.error # "" THEN RespondRead(400, <<>>, TRUE)
           ELSE RespondRead(200, PagesOf(CsvPreviewRows(parsed.rows)), TRUE)

\* the file-only handler that answers one PDF, a page per row
PreviewCsvPdf ==
  /\ Idle
  /\ \E req \in CsvRequests :
       LET r == CsvPreview(req)
       IN  http' = [pc |-> "done", handler |-> "csv-pdf", src |-> req.src,
                    status |-> r.status, pages |-> r.pages,
                    fileRead |-> r.fileRead]
  /\ UNCHANGED <<fit, posVars, coverVars, templateCache, certsBucket, stageExport, uiVars, drawVars, lateVars>>

\* crypto.randomUUID()
Uuids == {"u1", "u2"}

\* the file-only handler that stores a ZIP of one-page PDFs, a file per row
PreviewCsvZip ==
  /\ Idle
  /\ \E req \in CsvRequests, uuid \in Uuids :
       LET r == CsvPreview(req)
       IN  /\ http' = [pc |-> "done", handler |-> "csv-zip", src |-> req.src,
                       status |-> r.status, pages |-> r.pages,
                       fileRead |-> r.fileRead]
           /\ certsBucket' =
                IF r.status = 200
                  THEN { o \in certsBucket : o.key # uuid } \cup {[key |-> uuid, files |-> r.pages]}
                  ELSE certsBucket
  /\ UNCHANGED <<fit, posVars, coverVars, templateCache, stageExport, uiVars, drawVars, lateVars>>

(* ------------------------------------------------------------------------ *)
(* Export from the canvas stage                                              *)
(* ------------------------------------------------------------------------ *)
ExportNone == [pc |-> "none", kind |-> "", rows |-> <<>>, max |-> JsUndefined, pages |-> <<>>]

StageRowPool == {NormalizeRow(RawAnn), NormalizeRow(RawBob)}

\* the max argument: left out by the caller, or a whole number
MaxArgs == {JsUndefined} \cup { JsNum(Int2F(n)) : n \in 0..(MaxRows + 1) }

\* the value of a whole JS number
IntOf(x) == x.m * Pow2(x.e)

\* the default parameter  max = 5
MaxOrDefault(max) == IF max.t = "undefined" THEN 5 ELSE IntOf(max.n)

\* const previewRows = rows.slice(0, max)
StagePreviewRows(rows, max) == Slice(rows, MaxOrDefault(max))

\* exportPdfFromStage: a snapshot of the stage and a page for every preview row
ExportPdfFromStage ==
  /\ Idle
  /\ \E rows \in SeqsUpTo(StageRowPool, MaxRows), max \in MaxArgs :
       stageExport' = [pc |-> "done", kind |-> "pdf", rows |-> rows, max |-> max,
                       pages |-> PagesOf(StagePreviewRows(rows, max))]
  /\ UNCHANGED <<fit, posVars, coverVars, serverVars, uiVars, drawVars, lateVars>>

\* exportZipPngFromStage: a snapshot and a ZIP entry for every preview row
ExportZipPngFromStage ==
  /\ Idle
  /\ \E rows \in SeqsUpTo(StageRowPool, MaxRows), max \in MaxArgs :
       stageExport' = [pc |-> "done", kind |-> "zip", rows |-> rows, max |-> max,
                       pages |-> PagesOf(StagePreviewRows(rows, max))]
  /\ UNCHANGED <<fit, posVars, coverVars, serverVars, uiVars, drawVars, lateVars>>

(* ------------------------------------------------------------------------ *)
(* Colours: hexToRgb01(hex).  A colour string is a sequence of characters.   *)
(* ------------------------------------------------------------------------ *)
\* longest colour string of the model (after a leading '#')
MaxHexLen == 6

\* a colour value: nothing, a string of characters, or a number with the
\* characters of its decimal form
NoColor == [t |-> "undefined", s |-> <<>>]

NumColor(chars) == [t |-> "number", s |-> chars]

HexStr(chars) == [t |-> "string", s |-> chars]

\* the value of a hexadecimal digit, -1 for any other character
HexDigit(c) ==
  CASE c = "0" -> 0 [] c = "1" -> 1 [] c = "2" -> 2 [] c = "3" -> 3 [] c = "4" -> 4
    [] c = "5" -> 5 [] c = "6" -> 6 [] c = "7" -> 7 [] c = "8" -> 8 [] c = "9" -> 9
    [] c \in {"a", "A"} -> 10 [] c \in {"b", "B"} -> 11 [] c \in {"c", "C"} -> 12
    [] c \in {"d", "D"} -> 13 [] c \in {"e", "E"} -> 14 [] c \in {"f", "F"} -> 15
    [] OTHER -> 0 - 1

Drop(seq, n) == SubSeq(seq, n + 1, Len(seq))

RECURSIVE TrimStart(_)
TrimStart(seq) ==
  IF Len(seq) > 0 /\ seq[1] = " " THEN TrimStart(Drop(seq, 1)) ELSE seq

RECURSIVE TrimEnd(_)
TrimEnd(seq) ==
  IF Len(seq) > 0 /\ seq[Len(seq)] = " " THEN TrimEnd(SubSeq(seq, 1, Len(seq) - 1)) ELSE seq

\* String.prototype.trim
Trim(seq) == TrimEnd(TrimStart(seq))

\* the digits parseInt consumes: value so far and number of digits read
RECURSIVE ReadHex(_, _, _)
ReadHex(seq, acc, cnt) ==
  IF Len(seq) > 0 /\ HexDigit(seq[1]) >= 0
    THEN ReadHex(Drop(seq, 1), 16 * acc + HexDigit(seq[1]), cnt + 1)
    ELSE [value |-> acc, digits |-> cnt]

\* Number.parseInt(v, 16): leading white space, a sign, an optional 0x, then
\* the longest run of hex digits; NaN when there is no digit
ParseInt16(v) ==
  LET s0 == TrimStart(v)
      neg == Len(s0) > 0 /\ s0[1] = "-"
      s1 == IF Len(s0) > 0 /\ s0[1] \in {"+", "-"} THEN Drop(s0, 1) ELSE s0
      s2 == IF Len(s1) >= 2 /\ s1[1] = "0" /\ s1[2] \in {"x", "X"} THEN Drop(s1, 2) ELSE s1
      rd == ReadHex(s2, 0, 0)
  IN  IF rd.digits = 0 THEN [nan |-> TRUE, n |-> 0]
      ELSE [nan |-> FALSE, n |-> IF neg THEN 0 - rd.value ELSE rd.value]

\* (n >> k) & 255 for |n| < 2^31
ShiftAnd255(n, k) == (n \div Pow2(k)) % 256

\* pdf-lib rgb(r, g, b)
rgb(r, g, b) == [r |-> r, g |-> g, b |-> b]

\* h.split("").map((c) => c + c).join("")
DoubleChars(h) == [i \in 1..(2 * Len(h)) |-> h[(i + 1) \div 2]]

\* (hex || "#000000").toString(): hex.s holds the characters of String(hex)
HexOrDefault(hex) ==
  IF hex.t # "undefined" /\ hex.s # <<>> THEN hex.s
  ELSE <<"#", "0", "0", "0", "0", "0", "0">>

hexToRgb01NoShorthand(hex) ==
  LET raw == Trim(HexOrDefault(hex))
      h == IF Len(raw) > 0 /\ raw[1] = "#" THEN Drop(raw, 1) ELSE raw
      p == ParseInt16(h)
  IN  IF p.nan THEN rgb(Zero, Zero, Zero)
      ELSE rgb(FDiv(Int2F(ShiftAnd255(p.n, 16)), Int2F(255)),
               FDiv(Int2F(ShiftAnd255(p.n, 8)), Int2F(255)),
               FDiv(Int2F(ShiftAnd255(p.n, 0)), Int2F(255)))

hexToRgb01(hex) ==
  LET raw == Trim(HexOrDefault(hex))
      h == IF Len(raw) > 0 /\ raw[1] = "#" THEN Drop(raw, 1) ELSE raw
      v == IF Len(h) = 3 THEN DoubleChars(h) ELSE h
      p == ParseInt16(v)
  IN  IF p.nan THEN rgb(Zero, Zero, Zero)
      ELSE rgb(FDiv(Int2F(ShiftAnd255(p.n, 16)), Int2F(255)),
               FDiv(Int2F(ShiftAnd255(p.n, 8)), Int2F(255)),
               FDiv(Int2F(ShiftAnd255(p.n, 0)), Int2F(255)))

\* the characters colour strings are built from in the model
HexAlphabet == {"f", "8", "0", "g"}

\* strings that exercise trimming, the sign, the 0x prefix and upper case
HexSpecials ==
  { <<" ", "#", "f", "8", "0", " ">>, <<"-", "f", "f">>, <<"0", "x", "f", "f">>,
    <<"#", "F", "8", "0", "a", "B", "c">>, <<"#">>, <<"#", "#", "f", "f", "f">>,
    <<"f", " ", "f">>, <<"#", "1", "2", "3", "4", "5", "6", "7">> }

HexInputs ==
  { NoColor } \cup { HexStr(s) : s \in HexSpecials } \cup
  { HexStr(s) : s \in SeqsUpTo(HexAlphabet, MaxHexLen) } \cup
  { HexStr(<<"#">> \o s) : s \in SeqsUpTo(HexAlphabet, MaxHexLen) }

HexNone == [pc |-> "none", hex |-> NoColor, out |-> rgb(Zero, Zero, Zero)]

\* one call hexToRgb01(hex)
HexToRgbCall ==
  /\ hexCall.pc = "none"
  /\ \E hex \in HexInputs :
       hexCall' = [pc |-> "done", hex |-> hex, out |-> hexToRgb01(hex)]
  /\ UNCHANGED <<fit, posVars, coverVars, serverVars, stageExport, editor, drawVars, lateVars>>

(* ------------------------------------------------------------------------ *)
(* Editor UI: draggable fields over the preview box (App.jsx CanvasField,    *)
(* and DraggableText of the earlier editor)                                  *)
(* ------------------------------------------------------------------------ *)
\* the decimal literal n/d as the nearest number
Dec(n, d) == FDiv(Int2F(n), Int2F(d))

\* function clamp(n, min, max) { return Math.max(min, Math.min(max, n)); }
clamp(n, min, max) == MathMax(min, MathMin(max, n))

\* useState({...}): the default positions of App.jsx
AppDefaultPos ==
  [certTitle |-> [x |-> Half, y |-> Dec(18, 100)],
   subtitle |-> [x |-> Half, y |-> Dec(26, 100)],
   name |-> [x |-> Half, y |-> Dec(42, 100)],
   description |-> [x |-> Half, y |-> Dec(48, 100)],
   award |-> [x |-> Half, y |-> Dec(54, 100)],
   date |-> [x |-> Dec(10, 100), y |-> Dec(92, 100)],
   issuer |-> [x |-> Dec(80, 100), y |-> Dec(88, 100)]]

\* the default positions of the editor with DraggableText
DraggableDefaultPos ==
  [certTitle |-> [x |-> Half, y |-> Dec(18, 100)],
   name |-> [x |-> Half, y |-> Dec(42, 100)],
   award |-> [x |-> Half, y |-> Half],
   date |-> [x |-> Dec(1, 10), y |-> Dec(92, 100)],
   issuer |-> [x |-> Dec(8, 10), y |-> Dec(88, 100)]]

\* the fields the model drags; the others keep their default position
DragFields == {"certTitle", "date"}

EditorNone ==
  [variant |-> "none", pos |-> [k \in {} |-> 0], dragging |-> {}, editing |-> {},
   selectedKey |-> ""]

\* the editor as mounted: nothing dragged, nothing edited
EditorStart(variant) ==
  [variant |-> variant,
   pos |-> IF variant = "app" THEN AppDefaultPos ELSE DraggableDefaultPos,
   dragging |-> {}, editing |-> {}, selectedKey |-> "certTitle"]

EditorVariants == {"app", "draggable"}

\* clientX / clientY of a pointer event
ClientCoords == {0, 50, 150, 400}

\* previewBoxRef.current.getBoundingClientRect(), or no box mounted.  The
\* box of App.jsx carries a 1px border and is never less than 2px high; the
\* box of the earlier editor is as high as its <img>, 0 until that has loaded
BoxRects(variant) ==
  { [mounted |-> FALSE, left |-> 0, top |-> 0, width |-> 0, height |-> 0] } \cup
  { [mounted |-> TRUE, left |-> 50, top |-> 50, width |-> 200, height |-> hh] :
      hh \in IF variant = "app" THEN {2, 200} ELSE {0, 200} }

pointerToPercentUnclamped(box, clientX, clientY) ==
  [x |-> FDiv(FSub(Int2F(clientX), Int2F(box.left)), Int2F(box.width)),
   y |-> FDiv(FSub(Int2F(clientY), Int2F(box.top)), Int2F(box.height))]

\* pointerToPercent(clientX, clientY) for a mounted box
pointerToPercent(box, clientX, clientY) ==
  LET px == FDiv(FSub(Int2F(clientX), Int2F(box.left)), Int2F(box.width))
      py == FDiv(FSub(Int2F(clientY), Int2F(box.top)), Int2F(box.height))
  IN  [x |-> clamp(px, Zero, One), y |-> clamp(py, Zero, One)]

\* setPos((p) => ({ ...p, [fieldKey]: newPos }))
updatePos(pos, fieldKey, newPos) == [pos EXCEPT ![fieldKey] = newPos]

EditorLeaves == <<fit, posVars, coverVars, serverVars, stageExport, hexCall, drawVars, lateVars>>

\* onDown: select the field; start a drag unless the field is being edited
\* or the edit button was hit
PointerDown ==
  /\ editor.variant # "none"
  /\ \E f \in DragFields, onEditBtn \in BOOLEAN :
       /\ onEditBtn => editor.variant = "app" /\ f \notin editor.editing
       /\ editor' =
            IF editor.variant = "app"
              THEN [editor EXCEPT
                      !.selectedKey = f,
                      !.dragging = IF f \in editor.editing \/ onEditBtn
                                     THEN @ ELSE @ \cup {f}]
              ELSE [editor EXCEPT !.dragging = @ \cup {f}]
  /\ UNCHANGED EditorLeaves

\* onMove: while dragging, store the pointer position as a fraction of the box
PointerMove ==
  /\ editor.variant # "none"
  /\ \E f \in DragFields, cx \in ClientCoords, cy \in ClientCoords,
        box \in BoxRects(editor.variant) :
       editor' =
         IF f \in editor.dragging /\ box.mounted
           THEN [editor EXCEPT !.pos = updatePos(@, f, pointerToPercent(box, cx, cy))]
           ELSE editor
  /\ UNCHANGED EditorLeaves

\* onPointerUp={onUp}
PointerUp ==
  /\ editor.variant # "none"
  /\ \E f \in DragFields : editor' = [editor EXCEPT !.dragging = @ \ {f}]
  /\ UNCHANGED EditorLeaves

\* onPointerLeave={onUp}
PointerLeave ==
  /\ editor.variant # "none"
  /\ \E f \in DragFields : editor' = [editor EXCEPT !.dragging = @ \ {f}]
  /\ UNCHANGED EditorLeaves

\* startEditing(): double click, or the edit button
StartEditing ==
  /\ editor.variant = "app"
  /\ \E f \in DragFields : editor' = [editor EXCEPT !.editing = @ \cup {f}]
  /\ UNCHANGED EditorLeaves

\* stopEditing(save): blur, Enter or Escape
StopEditing ==
  /\ editor.variant = "app"
  /\ \E f \in DragFields :
       /\ f \in editor.editing
       /\ editor' = [editor EXCEPT !.editing = @ \ {f}]
  /\ UNCHANGED EditorLeaves

(* ------------------------------------------------------------------------ *)
(* Field render pipeline: fonts, colours and the drawing instructions of a   *)
(* page                                                                      *)
(* ------------------------------------------------------------------------ *)
\* the fixed field set of the editor
FieldKeys == {"certTitle", "subtitle", "name", "description", "award", "date", "issuer"}

\* JS truthiness of undefined, null, numbers and strings
Truthy(v) ==
  CASE v.t = "string" -> v.s # ""
    [] v.t = "number" -> ~IsNaN(v.n) /\ Sgn(v.n) # 0
    [] OTHER -> FALSE

\* v.toString() for the strings and the whole numbers of the model
ToStringJs(v) ==
  CASE v.t = "string" -> v.s
    [] v.t = "number" /\ v.n = Int2F(5) -> "5"
    [] OTHER -> "NaN"

\* String.prototype.toLowerCase for the font ids of the model
ToLowerCase(str) ==
  CASE str = "Courier" -> "courier"
    [] str = "TIMES" -> "times"
    [] OTHER -> str

\* the value JSON.parse gave for pos_json or style_json: an object with an
\* entry per field key, or a value that is no object (null, a number)
JsonObject(f) == [t |-> "object", f |-> f]

JsonNull == [t |-> "null", f |-> <<>>]

JsonNumber == [t |-> "number", f |-> <<>>]

\* the object {} and its like: every field key maps to the same entry
EmptyObject(entry) == JsonObject([k \in FieldKeys |-> entry])

\* a JSON form field: absent, text that does not parse, or text that parses
\* to a value
JsonField(raw, value) == [raw |-> raw, value |-> value]

\* safeJsonParse((form.get(name) || "{}").toString(), {}) with the entry an
\* absent key reads as
safeJsonParse(field, missing) ==
  IF field.raw \in {"absent", "malformed"} THEN EmptyObject(missing) ELSE field.value

\* a style entry: { font, color }, or a value that is no object
StyleEntry(font, color) == [t |-> "object", font |-> font, color |-> color]

NoStyleEntry == [t |-> "undefined", font |-> JsUndefined, color |-> NoColor]

NoPosEntry == [t |-> "undefined", x |-> JsUndefined, y |-> JsUndefined]

\* pos?.[fieldKey]
PosOf(pos, fieldKey) == IF pos.t = "object" THEN pos.f[fieldKey] ELSE NoPosEntry

\* style?.[fieldKey]?.font
StyleFont(style, fieldKey) ==
  IF style.t = "object" /\ style.f[fieldKey].t = "object"
    THEN style.f[fieldKey].font ELSE JsUndefined

\* style?.[fieldKey]?.color
StyleColor(style, fieldKey) ==
  IF style.t = "object" /\ style.f[fieldKey].t = "object"
    THEN style.f[fieldKey].color ELSE NoColor

\* preview.js resolveFontKey: a key is the pair <<fontId, weight>>, written
\* `${fontId}:${weight}` in the code
resolveFontKey(style, fieldKey, isBold) ==
  LET font == StyleFont(style, fieldKey)
      fontId == ToLowerCase(ToStringJs(IF Truthy(font) THEN font ELSE JsStr("helvetica")))
  IN  [thrown |-> FALSE, key |-> <<fontId, IF isBold THEN "bold" ELSE "regular">>]

\* the resolveFontKey of the handler that reads the template from R2: no
\* toString(), so toLowerCase is called on whatever the font id is and throws
\* a TypeError unless it is a string
resolveFontKeyR2(style, fieldKey, isBold) ==
  LET font == StyleFont(style, fieldKey)
      chosen == IF Truthy(font) THEN font ELSE JsStr("helvetica")
  IN  IF chosen.t # "string" THEN [thrown |-> TRUE, key |-> <<"", "">>]
      ELSE [thrown |-> FALSE,
            key |-> <<ToLowerCase(chosen.s), IF isBold THEN "bold" ELSE "regular">>]

\* fontNameForKey(key): the StandardFonts name
fontNameForKey(key) ==
  LET bold == key[2] = "bold"
  IN  IF key[1] = "times" THEN (IF bold THEN "Times-Bold" ELSE "Times-Roman")
      ELSE IF key[1] = "courier" THEN (IF bold THEN "Courier-Bold" ELSE "Courier")
      ELSE (IF bold THEN "Helvetica-Bold" ELSE "Helvetica")

\* the document under construction: the fonts embedded so far (a font handle
\* is its index), fontCache, the lookups getFont served, the pages, and
\* whether an exception was thrown
NewDocument ==
  [fonts |-> <<>>, fontCache |-> <<>>, lookups |-> <<>>, pages |-> <<>>, thrown |-> FALSE]

\* const x = v; rest: v is computed once and the rest reads its value
Const(v, Rest(_)) == CHOOSE r \in { Rest(x) : x \in {v} } : TRUE

\* pdfDoc.embedFont(name)
embedFont(st, name) == [st EXCEPT !.fonts = Append(@, name)]

CacheHas(st, key) == \E i \in 1..Len(st.fontCache) : st.fontCache[i].key = key

CacheGet(st, key) ==
  (CHOOSE e \in { st.fontCache[i] : i \in 1..Len(st.fontCache) } : e.key = key).font

Lookup(key, font, hit) == [key |-> key, font |-> font, hit |-> hit]

\* getFont without the fontCache.has test: embeds on every call
getFontAlwaysEmbed(st, resolved) ==
  IF resolved.thrown THEN [st EXCEPT !.thrown = TRUE]
  ELSE LET st1 == embedFont(st, fontNameForKey(resolved.key))
           font == Len(st1.fonts)
       IN  [st1 EXCEPT !.fontCache = Append(@, [key |-> resolved.key, font |-> font]),
                       !.lookups = Append(@, Lookup(resolved.key, font, FALSE))]

\* getFont(fieldKey, isBold), given the key resolveFontKey returned: the
\* document after the call; the font handed back is that of the last lookup
getFont(st, resolved) ==
  IF resolved.thrown THEN [st EXCEPT !.thrown = TRUE]
  ELSE IF CacheHas(st, resolved.key)
    THEN [st EXCEPT !.lookups = Append(@, Lookup(resolved.key, CacheGet(st, resolved.key), TRUE))]
  ELSE LET st1 == embedFont(st, fontNameForKey(resolved.key))
           font == Len(st1.fonts)
       IN  [st1 EXCEPT !.fontCache = Append(@, [key |-> resolved.key, font |-> font]),
                       !.lookups = Append(@, Lookup(resolved.key, font, FALSE))]

LastFont(st) == st.lookups[Len(st.lookups)].font

\* characters of the fallback colours
Hex2a == <<"#", "2", "a", "2", "a", "2", "a">>

Hex3a == <<"#", "3", "a", "3", "a", "3", "a">>

\* colorFor(fieldKey, fallbackHex): style?.[fieldKey]?.color || fallbackHex
colorFor(style, fieldKey, fallbackHex) ==
  LET c == StyleColor(style, fieldKey)
  IN  hexToRgb01(IF c.t # "undefined" /\ c.s # <<>> THEN c ELSE HexStr(fallbackHex))

\* average advance of a glyph in 1/1000 of the font size (Courier is
\* monospaced at 600)
GlyphUnits(name) ==
  CASE name = "Courier" -> 600 [] name = "Courier-Bold" -> 600
    [] name = "Times-Roman" -> 500 [] name = "Times-Bold" -> 520
    [] name = "Helvetica-Bold" -> 580 [] OTHER -> 550

\* font.widthOfTextAtSize(text, size) of an embedded standard font
TextWidth(name, text, size) ==
  FDiv(Int2F(Len(text) * GlyphUnits(name) * size), Int2F(1000))

\* fitTextSize(font, text, maxWidth, startSize, minSize) on an embedded font
RECURSIVE fitTextSize(_, _, _, _, _)
fitTextSize(name, text, maxWidth, startSize, minSize) ==
  IF startSize > minSize /\ Lt(maxWidth, TextWidth(name, text, startSize))
    THEN fitTextSize(name, text, maxWidth, startSize - 1, minSize)
    ELSE startSize

\* page.drawText(text, { x, y, size, font, color })
TextOp(field, text, x, y, size, font, color) ==
  [op |-> "drawText", field |-> field, text |-> text, x |-> x, y |-> y, size |-> size,
   font |-> font, color |-> color]

\* the last page of the document gets one more drawing instruction
Draw(st, instr) ==
  [st EXCEPT !.pages[Len(st.pages)] = [@ EXCEPT !.ops = Append(@, instr)]]

\* pdfDoc.addPage([w, h])
addPage(st, w, h) == [st EXCEPT !.pages = Append(@, [w |-> w, h |-> h, ops |-> <<>>])]

\* const maxWidth = w * 0.82
MaxWidthRatio == Dec(82, 100)

\* one field block of the row loop, from getFont to page.drawText; startSize
\* = minSize is a fixed size
DrawField(st, resolved, pos, style, w, h, field, fallbackHex, text, startSize, minSize) ==
  IF st.thrown THEN st
  ELSE Const(getFont(st, resolved), LAMBDA st1 :
    IF st1.thrown THEN st1
    ELSE LET font == LastFont(st1)
             name == st1.fonts[font]
         IN  Const(posToPdf(PosOf(pos, field), w, h), LAMBDA p :
             Const(FMul(w, MaxWidthRatio), LAMBDA maxWidth :
             Const(fitTextSize(name, text, maxWidth, startSize, minSize), LAMBDA size :
             Const(FDiv(TextWidth(name, text, size), Int2F(2)), LAMBDA half :
             Const(FSub(p.x, half), LAMBDA x :
               Draw(st1, TextOp(field, text, x, p.y, size, font,
                                colorFor(style, field, fallbackHex)))))))))

\* the watermark text; the dash stands for the em dash of the source
WatermarkText == "PREVIEW - UPGRADE TO REMOVE WATERMARK"

\* y: h * 0.35
WatermarkHeight == Dec(35, 100)

\* opacity: 0.35
WatermarkOpacity == Dec(35, 100)

\* page.drawText("PREVIEW ...", { x: 40, y: h * 0.35, size: 22, font, color:
\* rgb(0.75, 0.75, 0.75), rotate: degrees(25), opacity: 0.35 })
WatermarkOp(h, font) ==
  [op |-> "drawText", field |-> "watermark", text |-> WatermarkText, x |-> Int2F(40),
   y |-> FMul(h, WatermarkHeight), size |-> 22, font |-> font,
   color |-> rgb(Dyadic(3, 2), Dyadic(3, 2), Dyadic(3, 2)), rotate |-> 25,
   opacity |-> WatermarkOpacity]

DrawWatermarkFirst(st, h, font) ==
  IF st.thrown THEN st
  ELSE [st EXCEPT !.pages[Len(st.pages)] =
                    [@ EXCEPT !.ops = <<WatermarkOp(h, font)>> \o @]]

\* the closing block of the row loop
DrawWatermark(st, h, font) == IF st.thrown THEN st ELSE Draw(st, WatermarkOp(h, font))

\* page.drawImage(img, { x, y, width, height })
ImageOp(r) ==
  [op |-> "drawImage", field |-> "background", x |-> r.x, y |-> r.y, width |-> r.width,
   height |-> r.height]

\* pageSize(paperSize) of the handlers that draw a template image
pageSize(paperSize) == IF paperSize = "LETTER" THEN <<792, 612>> ELSE <<842, 595>>

\* pageSize(paperSize) of the file-only handlers
pageSizePortrait(paperSize) == IF paperSize = "LETTER" THEN <<612, 792>> ELSE <<595, 842>>

\* the default put before the row's own value
OrElseSecond(a, b) == IF b # "" THEN b ELSE a

\* a || b on strings
OrElse(a, b) == IF a # "" THEN a ELSE b

\* the form fields of a preview request besides the rows and the template
Form(title, subtitle, description, dateText, issuer, pos, style) ==
  [certificate_title |-> title, subtitle |-> subtitle, description |-> description,
   date_text |-> dateText, issuer |-> issuer, pos |-> pos, style |-> style]

\* the date block: if (effectiveDate) { ... }
DrawDate(st, key, form, row, w, h) ==
  LET effectiveDate == OrElse(row.date, form.date_text)
  IN  IF effectiveDate = "" THEN st
      ELSE DrawField(st, key, form.pos, form.style, w, h, "date", Hex3a,
                     "Date: " \o effectiveDate, 12, 12)

\* the issuer block left out
DrawIssuerSkipped(st, key, form, row, w, h) == st

\* the issuer block: if (effectiveIssuer) { ... }
DrawIssuer(st, key, form, row, w, h) ==
  LET effectiveIssuer == OrElse(row.issuer, form.issuer)
  IN  IF effectiveIssuer = "" THEN st
      ELSE DrawField(st, key, form.pos, form.style, w, h, "issuer", Hex2a,
                     effectiveIssuer, 14, 14)

\* both handlers without the toString() of preview.js
FontKeyInNoToString(variant, style, fieldKey, isBold) ==
  resolveFontKeyR2(style, fieldKey, isBold)

\* resolveFontKey of the handler in hand
FontKeyIn(variant, style, fieldKey, isBold) ==
  IF variant = "r2" THEN resolveFontKeyR2(style, fieldKey, isBold)
  ELSE resolveFontKey(style, fieldKey, isBold)

\* the body of the row loop of the two handlers that draw a template image:
\* page, background, the five field blocks, the watermark
RenderRow(st, variant, form, title, row, w, h, bg, wmFont) ==
  Const(Draw(addPage(st, w, h), ImageOp(bg)), LAMBDA s0 :
  Const(DrawField(s0, FontKeyIn(variant, form.style, "certTitle", TRUE), form.pos,
                  form.style, w, h, "certTitle", Hex2a, title, 38, 18), LAMBDA s1 :
  Const(DrawField(s1, FontKeyIn(variant, form.style, "name", TRUE), form.pos,
                  form.style, w, h, "name", Hex2a, row.name, 34, 18), LAMBDA s2 :
  Const(DrawField(s2, FontKeyIn(variant, form.style, "award", FALSE), form.pos,
                  form.style, w, h, "award", Hex3a, row.award, 18, 11), LAMBDA s3 :
  Const(DrawDate(s3, FontKeyIn(variant, form.style, "date", FALSE), form, row, w, h),
        LAMBDA s4 :
  Const(DrawIssuer(s4, FontKeyIn(variant, form.style, "issuer", TRUE), form, row, w, h),
        LAMBDA s5 :
    DrawWatermark(s5, h, wmFont)))))))

\* a loop that carries the name of a row over to the title of the next page
RECURSIVE RenderRowsCarry(_, _, _, _, _, _, _, _, _, _)
RenderRowsCarry(st, i, rows, variant, form, title, w, h, bg, wmFont) ==
  IF i > Len(rows) \/ st.thrown THEN st
  ELSE Const(RenderRow(st, variant, form, title, rows[i], w, h, bg, wmFont), LAMBDA next :
         RenderRowsCarry(next, i + 1, rows, variant, form, rows[i].name, w, h, bg, wmFont))

\* for (const row of rows) { ... }: an exception ends the loop
RECURSIVE RenderRows(_, _, _, _, _, _, _, _, _, _)
RenderRows(st, i, rows, variant, form, title, w, h, bg, wmFont) ==
  IF i > Len(rows) \/ st.thrown THEN st
  ELSE Const(RenderRow(st, variant, form, title, rows[i], w, h, bg, wmFont), LAMBDA next :
         RenderRows(next, i + 1, rows, variant, form, title, w, h, bg, wmFont))

\* the document of the handler that fetches the template from the CDN: the
\* image is stretched over the page
CdnDocument(rows, form, paperSize) ==
  Const(Int2F(pageSize(paperSize)[1]), LAMBDA w :
  Const(Int2F(pageSize(paperSize)[2]), LAMBDA h :
  Const(embedFont(NewDocument, "Helvetica-Bold"), LAMBDA st :
    RenderRows(st, 1, rows, "cdn", form,
               OrElse(form.certificate_title, "Certificate of Achievement"), w, h,
               [x |-> Zero, y |-> Zero, width |-> w, height |-> h], 1))))

\* the document of the handler that reads the template from R2: the image
\* covers the page
R2Document(rows, form, paperSize, img) ==
  Const(Int2F(pageSize(paperSize)[1]), LAMBDA w :
  Const(Int2F(pageSize(paperSize)[2]), LAMBDA h :
  Const(embedFont(NewDocument, "Helvetica-Bold"), LAMBDA st :
  Const(drawBackgroundCover(Int2F(img[1]), Int2F(img[2]), w, h), LAMBDA bg :
    RenderRows(st, 1, rows, "r2", form, OrElse(form.certificate_title, "Certificate"),
               w, h, bg, 1)))))

\* the file-only handlers: rgb literals, heights and the centred text
Gray10 == rgb(Dec(1, 10), Dec(1, 10), Dec(1, 10))

Gray12 == rgb(Dec(12, 100), Dec(12, 100), Dec(12, 100))

Gray25 == rgb(Dyadic(1, 2), Dyadic(1, 2), Dyadic(1, 2))

Gray35 == rgb(Dec(35, 100), Dec(35, 100), Dec(35, 100))

Gray50 == rgb(Half, Half, Half)

Blue == rgb(Dec(2, 10), Dec(45, 100), One)

Purple == rgb(Dec(65, 100), Dec(2, 10), Dec(85, 100))

NameHeight == Dec(55, 100)

AwardHeight == Dec(48, 100)

DateHeight == Dec(22, 100)

RectOp(x, y, width, height, color) ==
  [op |-> "drawRectangle", field |-> "shape", x |-> x, y |-> y, width |-> width,
   height |-> height, color |-> color]

\* the accent bar colour of part_002 (templateId modern / elegant / other)
BarColor(templateId) ==
  IF templateId = "modern" THEN Gray12
  ELSE IF templateId = "elegant" THEN Blue
  ELSE Purple

\* the accent bar colour of makeCertificatePdf (templateId t1 / t2 / other)
BarColorZip(templateId) ==
  IF templateId = "t1" THEN Gray12
  ELSE IF templateId = "t2" THEN Blue
  ELSE Purple

\* drawCenteredText(page, font, text, size, y, color): x = (w - width) / 2
drawCenteredText(st, field, name, font, text, size, w, y, color) ==
  Const(FSub(w, TextWidth(name, text, size)), LAMBDA free :
  Const(FDiv(free, Int2F(2)), LAMBDA x :
    Draw(st, TextOp(field, text, x, y, size, font, color))))

\* `${n}` for the page numbers of a preview
IntStr(n) ==
  CASE n = 1 -> "1" [] n = 2 -> "2" [] n = 3 -> "3" [] n = 4 -> "4" [] n = 5 -> "5"
    [] OTHER -> "?"

\* the page of part_002 for row i of n: background, bar, heading, name,
\* title, date, watermark, footer.  Font 1 is Helvetica, font 2 Helvetica-Bold
CsvPdfPage(st, row, i, n, templateId, w, h) ==
  Const(Draw(addPage(st, w, h), RectOp(Zero, Zero, w, h, rgb(One, One, One))), LAMBDA s0 :
  Const(Draw(s0, RectOp(Zero, FSub(h, Int2F(80)), w, Int2F(80), BarColor(templateId))),
        LAMBDA s1 :
  Const(Draw(s1, TextOp("heading", "Certificate", Int2F(40), FSub(h, Int2F(52)), 22, 2,
                        rgb(One, One, One))), LAMBDA s2 :
  Const(drawCenteredText(s2, "name", "Helvetica-Bold", 2, row.name, 34, w,
                         FMul(h, NameHeight), Gray10), LAMBDA s3 :
  Const(drawCenteredText(s3, "award", "Helvetica", 1, row.award, 18, w,
                         FMul(h, AwardHeight), Gray25), LAMBDA s4 :
  Const(IF row.date = "" THEN s4
        ELSE drawCenteredText(s4, "date", "Helvetica", 1, "Date: " \o row.date, 12, w,
                              FMul(h, DateHeight), Gray35), LAMBDA s5 :
  Const(DrawWatermark(s5, h, 2), LAMBDA s6 :
    Draw(s6, TextOp("footer", "Preview page " \o IntStr(i) \o " of " \o IntStr(n),
                    Int2F(40), Int2F(30), 10, 1, Gray50)))))))))

RECURSIVE CsvPdfPages(_, _, _, _, _, _)
CsvPdfPages(st, i, rows, templateId, w, h) ==
  IF i > Len(rows) THEN st
  ELSE Const(CsvPdfPage(st, rows[i], i, Len(rows), templateId, w, h), LAMBDA next :
         CsvPdfPages(next, i + 1, rows, templateId, w, h))

\* the document of part_002
CsvPdfDocument(rows, templateId, paperSize) ==
  Const(Int2F(pageSizePortrait(paperSize)[1]), LAMBDA w :
  Const(Int2F(pageSizePortrait(paperSize)[2]), LAMBDA h :
  Const(embedFont(embedFont(NewDocument, "Helvetica"), "Helvetica-Bold"), LAMBDA st :
    CsvPdfPages(st, 1, rows, templateId, w, h))))

\* makeCertificatePdf: a one-page document; x = w / 2 - width / 2
makeCertificatePdf(row, templateId, paperSize) ==
  Const(Int2F(pageSizePortrait(paperSize)[1]), LAMBDA w :
  Const(Int2F(pageSizePortrait(paperSize)[2]), LAMBDA h :
  Const(FDiv(w, Int2F(2)), LAMBDA centerX :
  LET cx(name, text, size) == FSub(centerX, FDiv(TextWidth(name, text, size), Int2F(2)))
  IN
  Const(addPage(NewDocument, w, h), LAMBDA s0 :
  Const(embedFont(embedFont(s0, "Helvetica"), "Helvetica-Bold"), LAMBDA s1 :
  Const(Draw(s1, RectOp(Zero, Zero, w, h, rgb(One, One, One))), LAMBDA s2 :
  Const(Draw(s2, RectOp(Zero, FSub(h, Int2F(80)), w, Int2F(80), BarColorZip(templateId))),
        LAMBDA s3 :
  Const(Draw(s3, TextOp("heading", "Certificate", Int2F(40), FSub(h, Int2F(52)), 22, 2,
                        rgb(One, One, One))), LAMBDA s4 :
  Const(Draw(s4, TextOp("name", row.name, cx("Helvetica-Bold", row.name, 34),
                        FMul(h, NameHeight), 34, 2, Gray10)), LAMBDA s5 :
  Const(Draw(s5, TextOp("award", row.award, cx("Helvetica", row.award, 18),
                        FMul(h, AwardHeight), 18, 1, Gray25)), LAMBDA s6 :
  Const(IF row.date = "" THEN s6
        ELSE Draw(s6, TextOp("date", "Date: " \o row.date,
                             cx("Helvetica", "Date: " \o row.date, 12),
                             FMul(h, DateHeight), 12, 1, Gray35)), LAMBDA s7 :
    DrawWatermark(s7, h, 2))))))))))))

\* the ZIP of the second file-only handler: a one-page document per row,
\* kept here as the pages in row order
CsvZipDocument(rows, templateId, paperSize) ==
  [NewDocument EXCEPT
     !.fonts = <<"Helvetica", "Helvetica-Bold">>,
     !.pages = [i \in 1..Len(rows) |->
                  makeCertificatePdf(rows[i], templateId, paperSize).pages[1]]]

(* ------------------------------------------------------------------------ *)
(* Preview requests with their form fields, and the documents they build     *)
(* ------------------------------------------------------------------------ *)
DocNone ==
  [pc |-> "none", handler |-> "", req |-> <<>>, status |-> 0, fonts |-> <<>>,
   lookups |-> <<>>, pages |-> <<>>, cached |-> FALSE]

\* what a handler leaves behind: the response status, the document, and
\* whether the template bytes came out of TEMPLATE_BYTES_CACHE
DocOf(handler, req, status, st, cached) ==
  [pc |-> "done", handler |-> handler, req |-> req, status |-> status, fonts |-> st.fonts,
   lookups |-> st.lookups, pages |-> st.pages, cached |-> cached]

RowsOfReversed(pages) == [i \in 1..Len(pages) |-> pages[Len(pages) + 1 - i].row]

RowsOf(pages) == [i \in 1..Len(pages) |-> pages[i].row]

\* positions as the editor stores them
PosEntry(x, y) == JsObj(JsNum(x), JsNum(y))

EditorPos ==
  JsonObject([k \in FieldKeys |->
    CASE k = "certTitle" -> PosEntry(Half, Dyadic(3, 4))
      [] k = "name" -> PosEntry(Half, Dyadic(7, 4))
      [] k = "award" -> PosEntry(Half, Dyadic(9, 4))
      [] k = "date" -> PosEntry(Dyadic(1, 3), Dyadic(15, 4))
      [] k = "issuer" -> PosEntry(Dyadic(13, 4), Dyadic(7, 3))
      [] OTHER -> PosEntry(Half, Dyadic(1, 2))])

\* positions that are not finite numbers in [0,1], entries that are no objects
BrokenPos ==
  JsonObject([k \in FieldKeys |->
    CASE k = "certTitle" -> JsObj(JsStr("abc"), JsNum(PosInf))
      [] k = "name" -> JsObj(JsNull, JsNum(Dyadic(3, 1)))
      [] k = "award" -> NoPosEntry
      [] k = "date" -> JsObj(JsNum(Dyadic(0 - 1, 1)), JsUndefined)
      [] OTHER -> PosEntry(Half, Half)])

PosFields ==
  { JsonField("absent", JsonNull), JsonField("malformed", JsonNull),
    JsonField("json", JsonNull), JsonField("json", JsonNumber),
    JsonField("json", EditorPos), JsonField("json", BrokenPos) }

\* styles as the editor stores them
EditorStyle ==
  EmptyObject(StyleEntry(JsStr("helvetica"), HexStr(<<"#", "1", "e", "2", "2", "3", "3">>)))

\* other fonts, a shared font for two bold fields, colours that are not
\* #RRGGBB, an entry that is no object
MixedStyle ==
  JsonObject([k \in FieldKeys |->
    CASE k = "certTitle" -> StyleEntry(JsStr("TIMES"), HexStr(<<"#", "f", "f">>))
      [] k = "name" -> StyleEntry(JsStr("times"), HexStr(<<"r", "e", "d">>))
      [] k = "award" -> StyleEntry(JsStr("Courier"), NumColor(<<"2", "5", "5">>))
      [] k = "date" -> StyleEntry(JsStr("comic"), NoColor)
      [] k = "issuer" -> StyleEntry(JsStr(""), HexStr(<<"#", "0", "8", "f">>))
      [] OTHER -> NoStyleEntry])

\* a font id that is a number
NumericFontStyle ==
  JsonObject([k \in FieldKeys |->
    IF k = "award" THEN StyleEntry(JsNum(Int2F(5)), NoColor)
    ELSE StyleEntry(JsNum(Zero), NoColor)])

StyleFields ==
  { JsonField("absent", JsonNull), JsonField("malformed", JsonNull),
    JsonField("json", JsonNull), JsonField("json", JsonNumber),
    JsonField("json", EditorStyle), JsonField("json", MixedStyle),
    JsonField("json", NumericFontStyle) }

LongTitle == "Certificate of Outstanding Achievement and Merit"

PlainForm ==
  Form("", "", "", "", "", JsonField("absent", JsonNull), JsonField("absent", JsonNull))

\* forms that differ in their texts, in their positions, in their styles
TextForms ==
  { Form(t, sd[1], sd[2], dt, iss, JsonField("json", EditorPos), JsonField("json", EditorStyle)) :
      t \in {"", "Diploma", LongTitle}, sd \in {<<"", "">>, <<"Presented to", "for merit">>},
      dt \in {"", "2026-05-05"}, iss \in {"", "School"} }

Forms ==
  TextForms \cup
  { Form("Diploma", "", "", "2026-05-05", "", p, s) : p \in PosFields, s \in StyleFields }

\* the forms every list of rows is rendered with
SourceForms ==
  { PlainForm,
    Form("Diploma", "Presented to", "for merit", "2026-05-05", "School",
         JsonField("json", EditorPos), JsonField("json", MixedStyle)) }

\* form.pos and form.style after safeJsonParse
ParsedForm(form) ==
  [form EXCEPT !.pos = safeJsonParse(@, NoPosEntry), !.style = safeJsonParse(@, NoStyleEntry)]

RawCyd == RawRow(JsStr("Cyd"), JsStr("Bronze"), JsUndefined, JsStr(""), JsStr(""))

ArraySource(rs) == [rows_json |-> [kind |-> "array", rows |-> rs], file |-> FileAbsent]

\* lists of two rows at most, and one list longer than the preview cap
RenderSources ==
  { ArraySource(rs) : rs \in SeqsUpTo({RawAnn, RawBob, RawNoName}, 2) } \cup
  { ArraySource(<<RawAnn, RawNoName, RawBob, RawCyd, RawAnn, RawBob, RawCyd>>) }

\* image file formats a template can be stored in
StoredFormats == ImageFormats \cup {"webp"}

\* the handler of preview.js, from the request to the document
CdnRender(req, cache) ==
  Const(CdnPreview(req, cache), LAMBDA r :
  Const(IF r.resp.status = 200
          THEN CdnDocument(RowsOf(r.resp.pages), ParsedForm(req.form), req.paper_size)
          ELSE NewDocument, LAMBDA st :
    [status |-> IF st.thrown THEN 500 ELSE r.resp.status, st |-> st, cache |-> r.cache,
     pages |-> r.resp.pages, fileRead |-> r.resp.fileRead]))

\* the handler that reads the template from R2, from the request to the
\* document
R2Render(req) ==
  Const(R2Preview(req), LAMBDA r :
  Const(IF r.status = 200
          THEN R2Document(RowsOf(r.pages), ParsedForm(req.form), req.paper_size, req.img)
          ELSE NewDocument, LAMBDA st :
    [status |-> IF st.thrown THEN 500 ELSE r.status, st |-> st, pages |-> r.pages,
     fileRead |-> r.fileRead]))

\* the handler of part_002
CsvPdfRender(req) ==
  Const(CsvPreview(req), LAMBDA r :
    [status |-> r.status,
     st |-> IF r.status = 200
              THEN CsvPdfDocument(RowsOf(r.pages), req.template_id, req.paper_size)
              ELSE NewDocument,
     pages |-> r.pages, fileRead |-> r.fileRead])

\* the handler that stores a ZIP
CsvZipRender(req) ==
  Const(CsvPreview(req), LAMBDA r :
    [status |-> r.status,
     st |-> IF r.status = 200
              THEN CsvZipDocument(RowsOf(r.pages), req.template_id, req.paper_size)
              ELSE NewDocument,
     pages |-> r.pages, fileRead |-> r.fileRead])

\* requests to the handler of preview.js: every form over every list of rows
\* with the template at hand, and the template and paper edge cases
CdnRenderRequests ==
  { [src |-> sc, paper_size |-> "A4", template_id |-> "kids-fantasy-1",
     env |-> [fetchOk |-> TRUE, fetched |-> "png"], form |-> f] :
      sc \in RenderSources, f \in SourceForms } \cup
  { [src |-> ArraySource(<<RawAnn, RawBob, RawCyd>>), paper_size |-> "A4",
     template_id |-> "kids-fantasy-1", env |-> [fetchOk |-> TRUE, fetched |-> "png"],
     form |-> f] : f \in Forms } \cup
  { [src |-> ArraySource(<<RawAnn, RawBob>>), paper_size |-> ps, template_id |-> tid,
     env |-> ev, form |-> PlainForm] :
      ps \in PaperSizes, tid \in {"professional", "nope"},
      ev \in [fetchOk : BOOLEAN, fetched : StoredFormats] }

\* pixel sizes of the stored template image
TemplateImages == {<<1000, 500>>, <<500, 1000>>}

R2RenderRequests ==
  { [src |-> sc, paper_size |-> "LETTER", template_key |-> "templates/bg.png",
     env |-> [exists |-> TRUE, stored |-> "png"], img |-> <<1000, 500>>, form |-> f] :
      sc \in RenderSources, f \in SourceForms } \cup
  { [src |-> ArraySource(<<RawAnn, RawBob, RawCyd>>), paper_size |-> "LETTER",
     template_key |-> "templates/bg.png", env |-> [exists |-> TRUE, stored |-> "png"],
     img |-> <<1000, 500>>, form |-> f] : f \in Forms } \cup
  { [src |-> ArraySource(<<RawAnn, RawBob>>), paper_size |-> ps, template_key |-> key,
     env |-> ev, img |-> img, form |-> PlainForm] :
      ps \in PaperSizes, key \in {"templates/bg.png", "templates/bg.jpg", "templates/bg.webp"},
      ev \in [exists : BOOLEAN, stored : StoredFormats], img \in TemplateImages }

CsvRenderRequests ==
  { [src |-> [rows_json |-> RowsJsonAbsent, file |-> [kind |-> "file", csv |-> <<h>> \o body]],
     paper_size |-> ps, template_id |-> tid] :
      h \in CsvHeaders, body \in SeqsUpTo(CsvLinePool, 2), ps \in {"A4", "LETTER", "A3"},
      tid \in {"modern", "elegant", "t1"} } \cup
  { [src |-> [rows_json |-> RowsJsonAbsent,
              file |-> [kind |-> "file",
                        csv |-> <<<<"name", "title">>, <<"Ann", "Gold">>, <<"Bob", "Silver">>,
                                  <<"Cyd", "Bronze">>, <<"Dan", "Gold">>, <<"Eve", "Gold">>,
                                  <<"Fay", "Gold">>>>]],
     paper_size |-> "A4", template_id |-> "modern"] }

HttpOf(handler, req, status, r) ==
  [pc |-> "done", handler |-> handler, src |-> req.src, status |-> status,
   pages |-> IF status = 200 THEN r.pages ELSE <<>>, fileRead |-> r.fileRead]

\* a request served by the handler of preview.js
ServeCdn(reqs) ==
  /\ \E req \in reqs :
       \E r \in {CdnRender(req, templateCache)} :
         /\ doc' = DocOf("cdn", req, r.status, r.st,
                         TemplateUrl(req.template_id) \in DOMAIN templateCache)
         /\ http' = HttpOf("cdn", req, r.status, r)
         /\ templateCache' = r.cache
  /\ docPrev' = doc
  /\ UNCHANGED <<fit, posVars, coverVars, certsBucket, stageExport, uiVars, lateVars>>

\* a request served by the handler that reads the template from R2
ServeR2(reqs) ==
  /\ \E req \in reqs :
       \E r \in {R2Render(req)} :
         /\ doc' = DocOf("r2", req, r.status, r.st, FALSE)
         /\ http' = HttpOf("r2", req, r.status, r)
  /\ docPrev' = doc
  /\ UNCHANGED <<fit, posVars, coverVars, templateCache, certsBucket, stageExport, uiVars, lateVars>>

\* a request served by the handler of part_002
ServeCsvPdf(reqs) ==
  /\ \E req \in reqs :
       \E r \in {CsvPdfRender(req)} :
         /\ doc' = DocOf("csv-pdf", req, r.status, r.st, FALSE)
         /\ http' = HttpOf("csv-pdf", req, r.status, r)
  /\ docPrev' = doc
  /\ UNCHANGED <<fit, posVars, coverVars, templateCache, certsBucket, stageExport, uiVars, lateVars>>

\* a request served by the handler that stores a ZIP under a fresh key
ServeCsvZip(reqs) ==
  /\ \E req \in reqs, uuid \in Uuids :
       \E r \in {CsvZipRender(req)} :
         /\ doc' = DocOf("csv-zip", req, r.status, r.st, FALSE)
         /\ http' = HttpOf("csv-zip", req, r.status, r)
         /\ certsBucket' =
              IF r.status = 200
                THEN { o \in certsBucket : o.key # uuid } \cup
                     {[key |-> uuid, files |-> r.pages]}
                ELSE certsBucket
  /\ docPrev' = doc
  /\ UNCHANGED <<fit, posVars, coverVars, templateCache, stageExport, uiVars, lateVars>>

\* one preview request with its document
RenderCdnPreview == doc.pc = "none" /\ ServeCdn(CdnRenderRequests)

RenderR2Preview == doc.pc = "none" /\ ServeR2(R2RenderRequests)

RenderCsvPdf == doc.pc = "none" /\ ServeCsvPdf(CsvRenderRequests)

RenderCsvZip == doc.pc = "none" /\ ServeCsvZip(CsvRenderRequests)

\* the requests of an isolate that serves two in a row
RepeatCdnRequests ==
  { [src |-> ArraySource(<<RawAnn, RawBob>>), paper_size |-> "A4", template_id |-> tid,
     env |-> ev, form |-> f] :
      tid \in {"kids-fantasy-1", "professional"},
      ev \in { [fetchOk |-> TRUE, fetched |-> "png"], [fetchOk |-> FALSE, fetched |-> "png"],
               [fetchOk |-> TRUE, fetched |-> "jpg"] },
      f \in SourceForms }

RepeatR2Requests ==
  { [src |-> ArraySource(<<RawAnn, RawBob>>), paper_size |-> "LETTER",
     template_key |-> "templates/bg.png", env |-> [exists |-> ex, stored |-> "png"],
     img |-> <<1000, 500>>, form |-> f] : ex \in BOOLEAN, f \in SourceForms }

\* two preview requests in a row
RepeatCdnPreview == docPrev.pc = "none" /\ ServeCdn(RepeatCdnRequests)

RepeatR2Preview == docPrev.pc = "none" /\ ServeR2(RepeatR2Requests)

(* ------------------------------------------------------------------------ *)
(* Two requests that differ in their rows only                               *)
(* ------------------------------------------------------------------------ *)
\* a style with a font of its own for the date and the issuer, and no
\* request-level date or issuer: which page embeds these fonts first depends
\* on the rows
LateFontForm ==
  Form("Diploma", "", "", "", "", JsonField("json", EditorPos), JsonField("json", MixedStyle))

\* the same rows in another order, alone, and with a row more
RowOrders ==
  { <<RawAnn, RawBob>>, <<RawBob, RawAnn>>, <<RawBob>>, <<RawCyd, RawBob, RawAnn>> }

RowOrderR2Requests ==
  { [src |-> ArraySource(rs), paper_size |-> "LETTER", template_key |-> "templates/bg.png",
     env |-> [exists |-> TRUE, stored |-> "png"], img |-> <<1000, 500>>, form |-> f] :
      rs \in RowOrders, f \in {PlainForm, LateFontForm} }

RowOrderCdnRequests ==
  { [src |-> ArraySource(rs), paper_size |-> "A4", template_id |-> "kids-fantasy-1",
     env |-> [fetchOk |-> TRUE, fetched |-> "png"], form |-> LateFontForm] :
      rs \in RowOrders }

CsvLineOrders ==
  { <<<<"Ann", "Gold", "2026-01-01">>, <<"Bob", "Silver", "">>>>,
    <<<<"Bob", "Silver", "">>, <<"Ann", "Gold", "2026-01-01">>>>,
    <<<<"Bob", "Silver", "">>>>,
    <<<<"Cyd", "Bronze", "">>, <<"Bob", "Silver", "">>, <<"Ann", "Gold", "2026-01-01">>>> }

RowOrderCsvRequests ==
  { [src |-> [rows_json |-> RowsJsonAbsent,
              file |-> [kind |-> "file", csv |-> <<<<"name", "title", "date">>>> \o body]],
     paper_size |-> "A4", template_id |-> "modern"] : body \in CsvLineOrders }

\* two preview requests in a row whose rows differ
ReorderCdnPreview == docPrev.pc = "none" /\ ServeCdn(RowOrderCdnRequests)

ReorderR2Preview == docPrev.pc = "none" /\ ServeR2(RowOrderR2Requests)

ReorderCsvPdf == docPrev.pc = "none" /\ ServeCsvPdf(RowOrderCsvRequests)

ReorderCsvZip == docPrev.pc = "none" /\ ServeCsvZip(RowOrderCsvRequests)

(* ------------------------------------------------------------------------ *)
(* Concurrent requests: fetchTemplateBytesCached at the grain of its awaits  *)
(* (preview.js); every call runs on the one module-level cache               *)
(* ------------------------------------------------------------------------ *)
\* the calls of fetchTemplateBytesCached the model runs side by side
MaxCalls == 3

FetchCalls == 1..MaxCalls

FetchIdle ==
  [pc |-> "idle", url |-> "", fetched |-> FALSE, hit |-> FALSE, after |-> FALSE,
   cached |-> "", bytes |-> ""]

FetchesNone == [c \in FetchCalls |-> FetchIdle]

\* the cache once the response has been read: CACHE.set(url, bytes) is reached
\* only past `if (!res.ok) throw` and `await res.arrayBuffer()`
FetchSettleAlways(cache, url, ok, bytes) ==
  [u \in DOMAIN cache \cup {url} |-> IF u = url THEN bytes ELSE cache[u]]

FetchSettle(cache, url, ok, bytes) ==
  IF ok
    THEN [u \in DOMAIN cache \cup {url} |-> IF u = url THEN bytes ELSE cache[u]]
    ELSE cache

FetchLeaves ==
  <<fit, posVars, coverVars, http, certsBucket, stageExport, uiVars, drawVars,
    snap, texts, upload, dl, listing>>

\* if (TEMPLATE_BYTES_CACHE.has(url)) return TEMPLATE_BYTES_CACHE.get(url);
\* otherwise fetch(url, ...) is issued and the call waits for the response
FetchStart(c, url) ==
  /\ fetches[c].pc = "idle"
  /\ LET has == url \in DOMAIN templateCache
         after == \E o \in FetchCalls :
                    /\ fetches[o].pc = "returned" /\ fetches[o].url = url
     IN  fetches' =
           [fetches EXCEPT ![c] =
              [pc |-> IF has THEN "returned" ELSE "fetching",
               url |-> url, fetched |-> ~has, hit |-> has, after |-> after,
               cached |-> IF has THEN templateCache[url] ELSE "",
               bytes |-> IF has THEN templateCache[url] ELSE ""]]
  /\ UNCHANGED templateCache
  /\ UNCHANGED FetchLeaves

\* the fetch settles: a rejected fetch and a response that is not OK both
\* throw; an OK response goes on to res.arrayBuffer()
FetchRespond(c) ==
  /\ fetches[c].pc = "fetching"
  /\ \E outcome \in {"ok", "notOk", "rejected"} :
       /\ fetches' = [fetches EXCEPT ![c].pc = IF outcome = "ok" THEN "reading" ELSE "thrown"]
       /\ templateCache' = FetchSettle(templateCache, fetches[c].url, FALSE, "")
  /\ UNCHANGED FetchLeaves

\* the body has been read: the bytes are stored and returned; a body that
\* cannot be read throws
FetchStore(c) ==
  /\ fetches[c].pc = "reading"
  /\ \E read \in BOOLEAN, fmt \in ImageFormats :
       /\ fetches' = [fetches EXCEPT ![c].pc = IF read THEN "returned" ELSE "thrown",
                                     ![c].bytes = IF read THEN fmt ELSE ""]
       /\ templateCache' = FetchSettle(templateCache, fetches[c].url, read, fmt)
  /\ UNCHANGED FetchLeaves

(* ------------------------------------------------------------------------ *)
(* Stage export: snapshotStagePngBytes inside the row loop of                *)
(* exportPdfFromStage, with the effect of CertificateStage that attaches the *)
(* transformer to the selected node                                          *)
(* ------------------------------------------------------------------------ *)
\* the ids of the stage nodes a user can select; "" is no selection
StageIds == {"name", "award"}

\* the rows one export walks through
MaxExportRows == 2

NoShot == [taken |-> FALSE, selectedId |-> "", trNodes |-> "", trVisible |-> FALSE]

NoReturn == [ended |-> FALSE, threw |-> FALSE, selectedId |-> "", atCall |-> "",
             trVisible |-> FALSE]

\* the mounted stage: the effect has attached the transformer to the selection
SnapStarts ==
  { [pc |-> "idle", hasTr |-> tr, selectedId |-> sel, argSelected |-> "",
     prevSelected |-> "", atCall |-> "", trNodes |-> IF tr THEN sel ELSE "",
     trVisible |-> tr, effectDue |-> FALSE, row |-> 0, rows |-> 0,
     shot |-> NoShot, ret |-> NoReturn] :
      tr \in BOOLEAN, sel \in StageIds \cup {""} }

SnapLeaves ==
  <<fit, posVars, coverVars, serverVars, stageExport, uiVars, drawVars,
    fetches, texts, upload, dl, listing>>

\* setSelectedId(id): the next render runs the effect when the id changed
SetSelectedId(s, id) ==
  [s EXCEPT !.selectedId = id, !.effectDue = @ \/ id # s.selectedId]

\* useEffect(..., [selectedId, fields, ...]): detach without a selection,
\* attach to the selected node otherwise; nothing without a transformer
AttachEffect(s) ==
  [s EXCEPT !.effectDue = FALSE,
            !.trNodes = IF s.hasTr THEN s.selectedId ELSE @]

\* the synchronous head of snapshotStagePngBytes, up to the 30 ms delay
SnapshotHead(s) ==
  LET hid == IF s.hasTr THEN [s EXCEPT !.trNodes = "", !.trVisible = FALSE] ELSE s
  IN  SetSelectedId([hid EXCEPT !.prevSelected = s.argSelected,
                                !.atCall = s.selectedId,
                                !.shot = NoShot, !.ret = NoReturn,
                                !.pc = "delay"], "")

\* the tail of snapshotStagePngBytes: the transformer is shown again and the
\* selection restored behind the awaits; an exception of stage.toDataURL, of
\* fetch or of arrayBuffer leaves the function before them
SnapshotTail(s, ok) ==
  IF ok
    THEN LET shown == IF s.hasTr THEN [s EXCEPT !.trVisible = TRUE] ELSE s
             back == SetSelectedId(shown, s.prevSelected)
         IN  [back EXCEPT !.ret = [ended |-> TRUE, threw |-> FALSE,
                                   selectedId |-> back.selectedId,
                                   atCall |-> s.atCall, trVisible |-> back.trVisible],
                          !.pc = IF s.row < s.rows THEN "rowWait" ELSE "saved",
                          !.row = IF s.row < s.rows THEN @ + 1 ELSE @]
    ELSE [s EXCEPT !.ret = [ended |-> TRUE, threw |-> TRUE, selectedId |-> s.selectedId,
                            atCall |-> s.atCall, trVisible |-> s.trVisible],
                   !.pc = "failed"]

\* exportPdfFromStage is called with the selection of the render it was
\* created in and keeps that value for every row
ExportStart ==
  /\ snap.pc = "idle"
  /\ \E n \in 1..MaxExportRows :
       snap' = [snap EXCEPT !.pc = "rowWait", !.row = 1, !.rows = n,
                            !.argSelected = snap.selectedId]
  /\ UNCHANGED SnapLeaves

\* beforeEachRow and the 30 ms wait are over: snapshotStagePngBytes is called.
\* A render and its effects are over well before a timer of 30 ms fires
SnapshotCall ==
  /\ snap.pc = "rowWait" /\ ~snap.effectDue
  /\ snap' = SnapshotHead(snap)
  /\ UNCHANGED SnapLeaves

\* the user clicks a node, or the empty stage, while an export runs
UserSelect ==
  /\ snap.pc \in {"rowWait", "delay", "encoding"}
  /\ \E id \in StageIds \cup {""} :
       /\ id # snap.selectedId
       /\ snap' = SetSelectedId(snap, id)
  /\ UNCHANGED SnapLeaves

\* React renders and runs the effect
RunEffect ==
  /\ snap.pc # "none" /\ snap.effectDue
  /\ snap' = AttachEffect(snap)
  /\ UNCHANGED SnapLeaves

\* stage.toDataURL(...) after the delay: the picture is taken, or it throws
Capture ==
  /\ snap.pc = "delay" /\ ~snap.effectDue
  /\ \E ok \in BOOLEAN :
       snap' =
         IF ok
           THEN [snap EXCEPT !.pc = "encoding",
                             !.shot = [taken |-> TRUE, selectedId |-> snap.selectedId,
                                       trNodes |-> snap.trNodes,
                                       trVisible |-> snap.trVisible]]
           ELSE SnapshotTail(snap, FALSE)
  /\ UNCHANGED SnapLeaves

\* await (await fetch(dataUrl)).arrayBuffer(), then the restoring tail
Encode ==
  /\ snap.pc = "encoding"
  /\ \E ok \in BOOLEAN : snap' = SnapshotTail(snap, ok)
  /\ UNCHANGED SnapLeaves

(* ------------------------------------------------------------------------ *)
(* Text editing on the canvas (App.jsx CanvasField) and in the overlay       *)
(* editor whose fields are always contentEditable (DraggableText).  A text   *)
(* is a sequence of characters.                                              *)
(* ------------------------------------------------------------------------ *)
TextFields == {"certTitle", "subtitle", "description", "name", "award", "date", "issuer"}

\* the fields the model edits: a plain one, one shown from the sample row, and
\* the two with a placeholder
EditFields == {"certTitle", "name", "date", "issuer"}

\* the state a field's text is committed to
StateOf(fieldKey) ==
  CASE fieldKey = "name" -> "manualName"
    [] fieldKey = "award" -> "manualAward"
    [] fieldKey = "date" -> "dateText"
    [] OTHER -> fieldKey

DatePrefix == <<"D", "a", "t", "e", ":", " ">>

DatePlaceholder == DatePrefix \o <<"_", "_", "_", "_", "-", "_", "_", "-", "_", "_">>

IssuerPlaceholder ==
  <<"I", "s", "s", "u", "e", "r", " ", "/", " ",
    "O", "r", "g", "a", "n", "i", "z", "a", "t", "i", "o", "n">>

\* .replace(/\r/g, "")
RemoveCr(v) == SelectSeq(v, LAMBDA c : c # "\r")

\* .replace(/^Date:\s*/i, "")
StripDatePrefix(v) ==
  IF /\ Len(v) >= 5
     /\ v[1] \in {"D", "d"} /\ v[2] \in {"A", "a"} /\ v[3] \in {"T", "t"}
     /\ v[4] \in {"E", "e"} /\ v[5] = ":"
    THEN TrimStart(Drop(v, 5))
    ELSE v

\* updateText without the handling of the date prefix
updateTextVerbatim(st, fieldKey, value) ==
  [st EXCEPT ![StateOf(fieldKey)] = RemoveCr(value)]

\* updateText(fieldKey, value): one setter per field key
updateText(st, fieldKey, value) ==
  LET v == RemoveCr(value)
  IN  [st EXCEPT ![StateOf(fieldKey)] =
         IF fieldKey = "date" THEN Trim(StripDatePrefix(v)) ELSE v]

\* sampleRow: the manual entry, or the first uploaded row
sampleRow(t) ==
  IF t.inputMode = "manual"
    THEN [name |-> t.st.manualName, award |-> t.st.manualAward]
    ELSE t.row0

\* getFieldText(fieldKey), the text prop of the field
getFieldText(t, fieldKey) ==
  CASE fieldKey = "name" -> sampleRow(t).name
    [] fieldKey = "award" -> sampleRow(t).award
    [] fieldKey = "date" ->
         IF t.st.dateText # <<>> THEN DatePrefix \o t.st.dateText ELSE DatePlaceholder
    [] fieldKey = "issuer" -> IF t.st.issuer # <<>> THEN t.st.issuer ELSE IssuerPlaceholder
    [] OTHER -> t.st[fieldKey]

\* the child of the element: {text || " "}
RenderedText(text) == IF text = <<>> THEN <<" ">> ELSE text

\* el.innerText of what is rendered: a lone space is not rendered text
InnerTextOf(rendered) == IF rendered = <<" ">> THEN <<>> ELSE rendered

\* what the user may leave in a field
TypedTexts == { <<>>, <<"A">>, <<"d", "a", "t", "e", ":", " ", " ", "B", " ">> }

TextStarts ==
  { [pc |-> "mounted", variant |-> v, inputMode |-> m,
     row0 |-> [name |-> <<"R">>, award |-> <<"V">>],
     st |-> [certTitle |-> <<"T">>, subtitle |-> <<"S">>, description |-> <<"D">>,
             manualName |-> <<"N">>, manualAward |-> <<"W">>,
             dateText |-> <<"2", "4">>, issuer |-> <<"I">>],
     editing |-> {}, focused |-> "", dom |-> <<>>,
     atStart |-> [certTitle |-> <<"T">>, subtitle |-> <<"S">>, description |-> <<"D">>,
                  manualName |-> <<"N">>, manualAward |-> <<"W">>,
                  dateText |-> <<"2", "4">>, issuer |-> <<"I">>],
     last |-> [op |-> "none", field |-> "", dom |-> <<>>]] :
      v \in {"canvas", "overlay"}, m \in {"manual", "upload"} }

TextLeaves ==
  <<fit, posVars, coverVars, serverVars, stageExport, uiVars, drawVars,
    fetches, snap, upload, dl, listing>>

\* stopEditing(save) with save always true
stopEditingAlwaysSave(t, fieldKey, save) ==
  [t EXCEPT !.editing = @ \ {fieldKey},
            !.st = updateText(t.st, fieldKey, t.dom),
            !.last = [op |-> IF save THEN "commit" ELSE "escape",
                      field |-> fieldKey, dom |-> t.dom]]

\* stopEditing(save) of the focused field: commit the element's text, or put
\* the text prop back into the element
stopEditing(t, fieldKey, save) ==
  IF save
    THEN [t EXCEPT !.editing = @ \ {fieldKey},
                   !.st = updateText(t.st, fieldKey, t.dom),
                   !.last = [op |-> "commit", field |-> fieldKey, dom |-> t.dom]]
    ELSE [t EXCEPT !.editing = @ \ {fieldKey},
                   !.dom = getFieldText(t, fieldKey),
                   !.last = [op |-> "escape", field |-> fieldKey, dom |-> t.dom]]

\* onBlur of the focused field: stopEditing(true) on the canvas,
\* onTextChange(fieldKey, innerText) in the overlay editor
blurField(t) ==
  IF t.focused = "" THEN t
  ELSE [stopEditing(t, t.focused, TRUE) EXCEPT !.focused = ""]

\* the element of fieldKey takes the focus: the field that had it blurs first
focusField(t, fieldKey) ==
  LET b == IF t.focused = fieldKey THEN t ELSE blurField(t)
  IN  [b EXCEPT !.focused = fieldKey,
                !.dom = IF t.focused = fieldKey THEN @
                        ELSE InnerTextOf(RenderedText(getFieldText(b, fieldKey)))]

\* startEditing(): setEditing(true), then el.focus() in the next frame
EditStart ==
  /\ texts.pc = "mounted" /\ texts.variant = "canvas"
  /\ \E f \in EditFields :
       /\ f \notin texts.editing
       /\ \E r \in {focusField(texts, f)} :
            texts' = [r EXCEPT !.editing = @ \cup {f}, !.atStart = r.st,
                               !.last = [op |-> "start", field |-> f, dom |-> r.dom]]
  /\ UNCHANGED TextLeaves

\* a click into a field of the overlay editor, which is always editable
OverlayFocus ==
  /\ texts.pc = "mounted" /\ texts.variant = "overlay"
  /\ \E f \in EditFields :
       /\ f # texts.focused
       /\ \E r \in {focusField(texts, f)} :
            texts' = [r EXCEPT !.atStart = r.st,
                               !.last = [op |-> "start", field |-> f, dom |-> r.dom]]
  /\ UNCHANGED TextLeaves

\* the user changes the text of the focused, editable element
EditType ==
  /\ texts.pc = "mounted" /\ texts.focused # ""
  /\ texts.variant = "canvas" => texts.focused \in texts.editing
  /\ \E v \in TypedTexts :
       /\ v # texts.dom
       /\ texts' = [texts EXCEPT !.dom = v,
                                 !.last = [op |-> "type", field |-> texts.focused, dom |-> v]]
  /\ UNCHANGED TextLeaves

\* onKeyDown, Escape: stopEditing(false).  The element stops being editable;
\* whether it keeps the focus is up to the browser
KeyEscape ==
  /\ texts.pc = "mounted" /\ texts.variant = "canvas" /\ texts.focused # ""
  /\ \E keeps \in BOOLEAN :
       texts' = [stopEditing(texts, texts.focused, FALSE) EXCEPT
                   !.focused = IF keeps THEN @ ELSE ""]
  /\ UNCHANGED TextLeaves

\* onKeyDown, Enter: elRef.current?.blur(), whose onBlur is stopEditing(true)
KeyEnter ==
  /\ texts.pc = "mounted" /\ texts.variant = "canvas" /\ texts.focused # ""
  /\ texts' = blurField(texts)
  /\ UNCHANGED TextLeaves

\* the focused field loses the focus to something outside the fields
FieldBlur ==
  /\ texts.pc = "mounted" /\ texts.focused # ""
  /\ texts' = blurField(texts)
  /\ UNCHANGED TextLeaves

(* ------------------------------------------------------------------------ *)
(* Upload mode: handleUpload(file), whose file.text() settles later          *)
(* ------------------------------------------------------------------------ *)
\* the file selections one session makes
MaxUploads == 3

\* a selectable file: its extension and whether its text parses; the rows of
\* a file that parses are named after the file
UploadFiles ==
  { [name |-> n, ext |-> e, parses |-> p] :
      n \in {"a", "b"}, e \in {"csv", "txt", "pdf"}, p \in BOOLEAN }

\* parseCsv / parseTxt by the extension of file.name, an error otherwise
ParseUpload(file) ==
  IF file.ext \notin {"csv", "txt"}
    THEN [error |-> "Upload a .csv or .txt file.", rows |-> <<>>]
    ELSE IF file.parses
      THEN [error |-> "", rows |-> <<file.name>>]
      ELSE [error |-> IF file.ext = "csv" THEN "CSV must include headers" ELSE "TXT lines must be like",
            rows |-> <<>>]

UploadStart ==
  [pc |-> "mounted", uploadFile |-> <<>>, rows |-> <<>>, error |-> "",
   reads |-> <<>>, settled |-> {}]

UploadLeaves ==
  <<fit, posVars, coverVars, serverVars, stageExport, uiVars, drawVars,
    fetches, snap, texts, dl, listing>>

\* the state after `await file.text()` of one call: parse, then
\* setRows([]) and setError(parsed.error), or setRows(parsed.rows)
ApplyRead(u, file) ==
  LET parsed == ParseUpload(file)
  IN  IF parsed.error # ""
        THEN [u EXCEPT !.rows = <<>>, !.error = parsed.error]
        ELSE [u EXCEPT !.rows = parsed.rows]

\* handleUpload(file) up to its await: setUploadFile(file); setError("")
HandleUpload ==
  /\ upload.pc = "mounted" /\ Len(upload.reads) < MaxUploads
  /\ \E file \in UploadFiles :
       upload' = [upload EXCEPT !.uploadFile = <<file>>, !.error = "",
                                !.reads = Append(@, file)]
  /\ UNCHANGED UploadLeaves

\* file.text() of one call resolves and the rest of that call runs
ReadSettles ==
  /\ upload.pc = "mounted"
  /\ \E i \in (1..Len(upload.reads)) \ upload.settled :
       upload' = [ApplyRead(upload, upload.reads[i]) EXCEPT !.settled = @ \cup {i}]
  /\ UNCHANGED UploadLeaves

(* ------------------------------------------------------------------------ *)
(* The download endpoint: functions/api/download/[key].js                    *)
(* ------------------------------------------------------------------------ *)
\* the character of a char code below 128, as far as the keys need it
CharOfCode(n) == CASE n = 47 -> "/" [] n = 46 -> "." [] n = 32 -> " " [] OTHER -> "?"

\* decodeURIComponent(s): every %XX becomes its character; a % that is not
\* followed by two hex digits is a URIError
RECURSIVE decodeURIComponent(_)
decodeURIComponent(s) ==
  IF s = <<>> THEN [ok |-> TRUE, s |-> <<>>]
  ELSE IF s[1] # "%"
    THEN LET rest == decodeURIComponent(Drop(s, 1))
         IN  [ok |-> rest.ok, s |-> <<s[1]>> \o rest.s]
    ELSE IF Len(s) >= 3 /\ HexDigit(s[2]) >= 0 /\ HexDigit(s[3]) >= 0
                        /\ 16 * HexDigit(s[2]) + HexDigit(s[3]) < 128
      THEN LET rest == decodeURIComponent(Drop(s, 3))
           IN  [ok |-> rest.ok,
                s |-> <<CharOfCode(16 * HexDigit(s[2]) + HexDigit(s[3]))>> \o rest.s]
      ELSE [ok |-> FALSE, s |-> <<>>]

\* params.key of the requests: missing, plain, encoded, and malformed
DownloadKeys ==
  { <<>>, <<"a">>, <<"b">>, <<"p", "%", "2", "F", "a">>, <<"p", "%", "2", "f", "b">>,
    <<"p", "%">> }

\* the keys objects are stored under, and what is stored
StoredKeys == { <<"a">>, <<"p", "/", "a">>, <<"p", "%", "2", "F", "a">> }

StoredBytes == {"zip1", "zip2"}

\* env.CERTS_BUCKET: the stored objects by key
DownloadBuckets ==
  { b \in [StoredKeys -> StoredBytes \cup {"absent"}] : TRUE }

BucketGet(bucket, key) ==
  IF key \in DOMAIN bucket /\ bucket[key] # "absent"
    THEN [found |-> TRUE, bytes |-> bucket[key]]
    ELSE [found |-> FALSE, bytes |-> ""]

DownloadAnswer(status, body) == [thrown |-> "", status |-> status, body |-> body]

DownloadThrows(error) == [thrown |-> error, status |-> 0, body |-> ""]

\* onRequestGet({ params, env }): the response is built from zipBytes
\* (pdfBytes in the PDF variant), a name the module never declares, so
\* evaluating it throws a ReferenceError
onRequestGet(key, bucket) ==
  IF key = <<>> THEN DownloadAnswer(400, "Missing key")
  ELSE LET dec == decodeURIComponent(key)
       IN  IF ~dec.ok THEN DownloadThrows("URIError")
           ELSE LET obj == BucketGet(bucket, dec.s)
                IN  IF ~obj.found THEN DownloadAnswer(404, "Not found")
                    ELSE DownloadThrows("ReferenceError")

DownloadLeaves ==
  <<fit, posVars, coverVars, serverVars, stageExport, uiVars, drawVars,
    fetches, snap, texts, upload, listing>>

\* GET /api/download/<key>
Download ==
  /\ \E key \in DownloadKeys, bucket \in DownloadBuckets :
       dl' = [pc |-> "done", key |-> key, bucket |-> bucket,
              out |-> onRequestGet(key, bucket)]
  /\ UNCHANGED DownloadLeaves

(* ------------------------------------------------------------------------ *)
(* The template listing endpoint and what the preview handler accepts        *)
(* ------------------------------------------------------------------------ *)
LowerLetters ==
  <<"a", "b", "c", "d", "e", "f", "g", "h", "i", "j", "k", "l", "m",
    "n", "o", "p", "q", "r", "s", "t", "u", "v", "w", "x", "y", "z">>

UpperLetters ==
  <<"A", "B", "C", "D", "E", "F", "G", "H", "I", "J", "K", "L", "M",
    "N", "O", "P", "Q", "R", "S", "T", "U", "V", "W", "X", "Y", "Z">>

\* c.toLowerCase() and c.toUpperCase() of one character
LowerChar(c) ==
  IF \E i \in 1..26 : UpperLetters[i] = c
    THEN LowerLetters[CHOOSE i \in 1..26 : UpperLetters[i] = c] ELSE c

UpperChar(c) ==
  IF \E i \in 1..26 : LowerLetters[i] = c
    THEN UpperLetters[CHOOSE i \in 1..26 : LowerLetters[i] = c] ELSE c

LowerStr(s) == [i \in 1..Len(s) |-> LowerChar(s[i])]

\* const PREFIX = "templates/templates/"
PREFIX ==
  <<"t", "e", "m", "p", "l", "a", "t", "e", "s", "/",
    "t", "e", "m", "p", "l", "a", "t", "e", "s", "/">>

\* the extensions of /\.(png|jpg|jpeg|webp)$/i
ListedExts == { <<"p", "n", "g">>, <<"j", "p", "g">>, <<"j", "p", "e", "g">>,
                <<"w", "e", "b", "p">> }

\* the extension the regular expression matches at the end of s, <<>> if none
MatchedExt(s) ==
  LET fits == { e \in ListedExts :
                  /\ Len(s) > Len(e) /\ s[Len(s) - Len(e)] = "."
                  /\ LowerStr(SubSeq(s, Len(s) - Len(e) + 1, Len(s))) = e }
  IN  IF fits = {} THEN <<>> ELSE CHOOSE e \in fits : TRUE

\* the filter of the listing: directly under the prefix, with an image extension
Kept(key) ==
  LET rest == Drop(key, Len(PREFIX))
  IN  /\ rest # <<>>
      /\ \A i \in 1..Len(rest) : rest[i] # "/"
      /\ MatchedExt(rest) # <<>>

\* filename.replace(/\.(png|jpg|jpeg|webp)$/i, "")
TemplateIdOf(key) ==
  LET filename == Drop(key, Len(PREFIX))
      ext == MatchedExt(filename)
  IN  IF ext = <<>> THEN filename ELSE SubSeq(filename, 1, Len(filename) - Len(ext) - 1)

IsWordChar(c) ==
  \/ \E i \in 1..26 : LowerLetters[i] = c \/ UpperLetters[i] = c
  \/ c \in {"0", "1", "2", "3", "4", "5", "6", "7", "8", "9", "_"}

\* id.replace(/[-_]+/g, " ")
RECURSIVE DashesToSpace(_)
DashesToSpace(s) ==
  IF s = <<>> THEN <<>>
  ELSE IF s[1] \in {"-", "_"}
    THEN IF Len(s) > 1 /\ s[2] \in {"-", "_"} THEN DashesToSpace(Drop(s, 1))
         ELSE <<" ">> \o DashesToSpace(Drop(s, 1))
    ELSE <<s[1]>> \o DashesToSpace(Drop(s, 1))

\* .replace(/\b\w/g, (c) => c.toUpperCase())
Capitalized(s) ==
  [i \in 1..Len(s) |->
     IF IsWordChar(s[i]) /\ (i = 1 \/ ~IsWordChar(s[i - 1])) THEN UpperChar(s[i]) ELSE s[i]]

TemplateLabelOf(id) == Capitalized(DashesToSpace(id))

\* the rank of a character in the collation of the labels
CharRank(c) ==
  IF \E i \in 1..26 : LowerLetters[i] = LowerChar(c)
    THEN 10 + (CHOOSE i \in 1..26 : LowerLetters[i] = LowerChar(c))
    ELSE IF c = " " THEN 0 ELSE 5

\* a.localeCompare(b) < 0, or equal up to the letter case
RECURSIVE LabelBefore(_, _)
LabelBefore(a, b) ==
  IF a = <<>> THEN TRUE
  ELSE IF b = <<>> THEN FALSE
  ELSE IF CharRank(a[1]) # CharRank(b[1]) THEN CharRank(a[1]) < CharRank(b[1])
  ELSE LabelBefore(Drop(a, 1), Drop(b, 1))

\* .sort((a, b) => a.label.localeCompare(b.label)), which is stable
RECURSIVE InsertByLabel(_, _)
InsertByLabel(sorted, t) ==
  IF sorted = <<>> THEN <<t>>
  ELSE IF LabelBefore(sorted[1].label, t.label)
    THEN <<sorted[1]>> \o InsertByLabel(Drop(sorted, 1), t)
    ELSE <<t>> \o sorted

RECURSIVE SortByLabel(_)
SortByLabel(ts) ==
  IF ts = <<>> THEN <<>>
  ELSE InsertByLabel(SortByLabel(SubSeq(ts, 1, Len(ts) - 1)), ts[Len(ts)])

\* the templates of the listing response for the listed keys
ListTemplates(keys) ==
  LET kept == SelectSeq(keys, Kept)
  IN  SortByLabel([i \in 1..Len(kept) |->
                     [id |-> TemplateIdOf(kept[i]),
                      label |-> TemplateLabelOf(TemplateIdOf(kept[i])),
                      key |-> kept[i]]])

\* templateKey.toLowerCase().split(".").pop()
ExtOfKey(key) ==
  LET dots == { i \in 1..Len(key) : key[i] = "." }
  IN  LowerStr(IF dots = {} THEN key
               ELSE SubSeq(key, 1 + CHOOSE i \in dots : \A j \in dots : j <= i, Len(key)))

\* the preview handler embeds a PNG or a JPG and rejects any other template
\* as "Unsupported template format. Use PNG or JPG."
PreviewAccepts(key) ==
  ExtOfKey(key) \in { <<"p", "n", "g">>, <<"j", "p", "g">>, <<"j", "p", "e", "g">> }

\* templates.find((t) => t.id === templateId)?.key || ""
templateKeyOf(templates, templateId) ==
  LET hits == { i \in 1..Len(templates) : templates[i].id = templateId }
  IN  IF hits = {} THEN <<>>
      ELSE templates[CHOOSE i \in hits : \A j \in hits : i <= j].key

\* the objects bucket.list({ prefix: PREFIX }) may return, in key order
ListableKeys ==
  << PREFIX,
     PREFIX \o <<"B", ".", "P", "N", "G">>,
     PREFIX \o <<"a", ".", "j", "p", "g">>,
     PREFIX \o <<"a", ".", "p", "n", "g">>,
     PREFIX \o <<"c", "-", "_", "d", ".", "j", "p", "e", "g">>,
     PREFIX \o <<"n", ".", "t", "x", "t">>,
     PREFIX \o <<"s", "/", "e", ".", "p", "n", "g">>,
     PREFIX \o <<"w", ".", "w", "e", "b", "p">> >>

ListingLeaves ==
  <<fit, posVars, coverVars, serverVars, stageExport, uiVars, drawVars,
    fetches, snap, texts, upload, dl>>

\* GET /api/templates on a bucket that holds some of the listable keys
ListRequest ==
  /\ \E present \in SUBSET (1..Len(ListableKeys)) :
       \E keys \in {SelectSeq(ListableKeys, LAMBDA k : \E i \in present : ListableKeys[i] = k)} :
         listing' = [pc |-> "done", listed |-> keys, templates |-> ListTemplates(keys)]
  /\ UNCHANGED ListingLeaves

SnapNone == [pc |-> "none"]

TextsNone == [pc |-> "none"]

UploadNone == [pc |-> "none"]

DlNone == [pc |-> "none"]

ListingNone == [pc |-> "none"]

\* nothing started yet in the parts of the program below
LateIdle ==
  /\ fetches = FetchesNone /\ snap = SnapNone /\ texts = TextsNone
  /\ upload = UploadNone /\ dl = DlNone /\ listing = ListingNone

(* ------------------------------------------------------------------------ *)
(* Specifications                                                            *)
(* ------------------------------------------------------------------------ *)
InitFit ==
  /\ fit \in FitCalls
  /\ posCall = PosNone /\ posPrev = PosNone
  /\ stageBg = BgNone /\ pageBg = BgNone
  /\ http = HttpNone /\ templateCache = [u \in {} |-> "png"] /\ certsBucket = {}
  /\ stageExport = ExportNone
  /\ hexCall = HexNone /\ editor = EditorNone
  /\ doc = DocNone /\ docPrev = DocNone
  /\ LateIdle

NextFit == FitEnter \/ FitIterate \/ FitReturn

\* the text fitter applied to every call of FitCalls
SpecFit == InitFit /\ [][NextFit]_vars

\* the loop runs synchronously to completion: no step is postponed for ever
SpecFitLive == SpecFit /\ WF_vars(NextFit)

InitIdle ==
  /\ fit = FitIdle
  /\ posCall = PosNone /\ posPrev = PosNone
  /\ stageBg = BgNone /\ pageBg = BgNone
  /\ http = HttpNone /\ templateCache = [u \in {} |-> "png"] /\ certsBucket = {}
  /\ stageExport = ExportNone
  /\ hexCall = HexNone /\ editor = EditorNone
  /\ doc = DocNone /\ docPrev = DocNone
  /\ LateIdle

\* no request served yet by this isolate, or one template already cached
Init ==
  /\ fit = FitIdle
  /\ posCall = PosNone /\ posPrev = PosNone
  /\ stageBg = BgNone /\ pageBg = BgNone
  /\ http = HttpNone /\ templateCache \in CacheStates /\ certsBucket = {}
  /\ stageExport = ExportNone
  /\ hexCall = HexNone /\ editor = EditorNone
  /\ doc = DocNone /\ docPrev = DocNone
  /\ LateIdle

Next ==
  \/ PreviewFromCdn \/ PreviewFromR2 \/ PreviewCsvPdf \/ PreviewCsvZip
  \/ ExportPdfFromStage \/ ExportZipPngFromStage

\* the generator variants: one request to a server handler, one stage export
Spec == Init /\ [][Next]_vars

NextPos == PosToPdfCall

\* the coordinate mapper applied to every position of PosObjs
SpecPos == InitIdle /\ [][NextPos]_vars

NextCover == RenderStageBackground \/ DrawPageBackground

\* the background cover-fit on the stage and on the page
SpecCover == InitIdle /\ [][NextCover]_vars

(* ------------------------------------------------------------------------ *)
(* Text fitter properties                                                    *)
(* ------------------------------------------------------------------------ *)
\* C1: the size returned by fitTextSize lies in [minSize, startSize]
C1_SizeWithinRange ==
  fit.pc = "done" => fit.minSize <= fit.size /\ fit.size <= fit.startSize

\* a call that shrank the text and stopped strictly inside the range
C1_Witness ==
  /\ fit.pc = "done"
  /\ fit.minSize < fit.size /\ fit.size < fit.startSize

FitsAt(f, sz) == widthOfTextAtSize(f.font, f.t, sz) <= f.maxWidth

Monotone(f) ==
  \A a \in Sizes, b \in Sizes :
    a <= b => widthOfTextAtSize(f.font, f.t, a) <= widthOfTextAtSize(f.font, f.t, b)

SetMax(S) == CHOOSE m \in S : \A o \in S : o <= m

\* C2: for a width measure that is non-decreasing in size, fitTextSize returns
\* the largest size of minSize..startSize whose width is at most maxWidth, and
\* minSize when no size of the range fits
C2_LargestFittingSize ==
  (fit.pc = "done" /\ Monotone(fit)) =>
    LET fitting == { sz \in fit.minSize..fit.startSize : FitsAt(fit, sz) }
    IN  /\ IF fitting # {} THEN fit.size = SetMax(fitting) ELSE fit.size = fit.minSize
        /\ (FitsAt(fit, fit.size) \/ fit.size = fit.minSize)

\* a monotone font whose text fits only after shrinking, above the floor
C2_Witness ==
  /\ fit.pc = "done" /\ Monotone(fit)
  /\ fit.minSize < fit.size /\ fit.size < fit.startSize
  /\ FitsAt(fit, fit.size) /\ ~FitsAt(fit, fit.size + 1)

\* C3: every iteration of the loop lowers size by exactly 1 and never below
\* minSize, and every call returns
C3_LoopTerminates ==
  /\ [][(fit.pc = "loop" /\ fit'.pc = "loop") =>
          (fit'.size = fit.size - 1 /\ fit'.size >= fit.minSize)]_vars
  /\ <>(fit.pc = "done")

\* the loop stopped at the floor although the text still overflows
C3_Witness ==
  /\ fit.pc = "done"
  /\ fit.minSize < fit.startSize /\ fit.size = fit.minSize
  /\ ~FitsAt(fit, fit.size)

\* C4: for empty, null or undefined text the text is taken as "" and the
\* size stays startSize from entry to return
C4_EmptyTextKeepsStartSize ==
  (fit.text \in {JsNull, JsUndefined, JsStr("")} /\ fit.pc \in {"loop", "done"}) =>
    (fit.t = "" /\ fit.size = fit.startSize)

\* null text, with a font under which a non-empty text would have to shrink
C4_Witness ==
  /\ fit.pc = "done" /\ fit.text = JsNull
  /\ fit.minSize < fit.startSize
  /\ fit.font[fit.startSize] > fit.maxWidth
  /\ fit.size = fit.startSize

(* ------------------------------------------------------------------------ *)
(* Coordinate mapper properties                                              *)
(* ------------------------------------------------------------------------ *)
InRange(v, hi) == IsFin(v) /\ Le(Zero, v) /\ Le(v, hi)

\* C5: whatever the position object holds, posToPdf returns x in [0, w] and
\* y in [0, h]
C5_OutputInsidePage ==
  posCall.pc = "done" =>
    (InRange(posCall.out.x, posCall.w) /\ InRange(posCall.out.y, posCall.h))

\* a position with a NaN x and an out-of-range y
C5_Witness ==
  /\ posCall.pc = "done"
  /\ posCall.posObj.t = "object"
  /\ posCall.posObj.x = JsNum(NaN)
  /\ posCall.posObj.y = JsNum(Dyadic(3, 1))

\* a position whose x and y are finite numbers
NumericPos(c) ==
  /\ c.pc = "done" /\ c.posObj.t = "object"
  /\ c.posObj.x.t = "number" /\ IsFin(c.posObj.x.n)
  /\ c.posObj.y.t = "number" /\ IsFin(c.posObj.y.n)

\* clamp(v, 0, 1) of a finite number
Clamp(v) == IF Lt(v, Zero) THEN Zero ELSE IF Lt(One, v) THEN One ELSE v

\* C6: for a numeric position x_abs = clamp(x,0,1) * w and
\* y_abs = (1 - clamp(y,0,1)) * h; (0,0) maps to (0, h), (1,1) maps to (w, 0);
\* of two positions on the same page the one with the larger UI y never has
\* the larger PDF y
C6_FlipsYAxis ==
  /\ NumericPos(posCall) =>
       /\ posCall.out.x = FMul(Clamp(posCall.posObj.x.n), posCall.w)
       /\ posCall.out.y = FMul(FSub(One, Clamp(posCall.posObj.y.n)), posCall.h)
       /\ (posCall.posObj.x.n = Zero /\ posCall.posObj.y.n = Zero) =>
            (posCall.out.x = Zero /\ posCall.out.y = posCall.h)
       /\ (posCall.posObj.x.n = One /\ posCall.posObj.y.n = One) =>
            (posCall.out.x = posCall.w /\ posCall.out.y = Zero)
  /\ (NumericPos(posCall) /\ NumericPos(posPrev) /\ posCall.h = posPrev.h
        /\ Le(posPrev.posObj.y.n, posCall.posObj.y.n)) =>
       Le(posCall.out.y, posPrev.out.y)

\* (0,0) then (1,1) on the same page: from the top left to the bottom right
C6_Witness ==
  /\ NumericPos(posPrev) /\ NumericPos(posCall) /\ posCall.h = posPrev.h
  /\ posPrev.posObj.x.n = Zero /\ posPrev.posObj.y.n = Zero
  /\ posCall.posObj.x.n = One /\ posCall.posObj.y.n = One
  /\ posPrev.out.y = posPrev.h /\ posCall.out.y = Zero
  /\ posCall.out.x = posCall.w

\* the coordinate is absent: posObj is no object, or the property is undefined
Missing(v) == v.t = "undefined"

\* the coordinate is present but Number() of it is not a finite number
NonFinite(v) == v.t \notin {"undefined", "null"} /\ ~IsFin(Number(v))

\* C7 as stated: a missing and a non-finite coordinate both map to the
\* absolute coordinate of the normalized value 0
C7_MissingAndNonFiniteAreZero ==
  posCall.pc = "done" =>
    /\ (Missing(OptX(posCall.posObj)) \/ NonFinite(OptX(posCall.posObj))) =>
         posCall.out.x = Zero
    /\ (Missing(OptY(posCall.posObj)) \/ NonFinite(OptY(posCall.posObj))) =>
         posCall.out.y = posCall.h

\* C7 (amended): a non-finite coordinate maps to the absolute coordinate of the
\* normalized value 0, a missing one to that of the normalized value 0.5
C7_NonFiniteZeroMissingCentre ==
  posCall.pc = "done" =>
    /\ NonFinite(OptX(posCall.posObj)) => posCall.out.x = Zero
    /\ NonFinite(OptY(posCall.posObj)) => posCall.out.y = posCall.h
    /\ Missing(OptX(posCall.posObj)) => posCall.out.x = FMul(Half, posCall.w)
    /\ Missing(OptY(posCall.posObj)) => posCall.out.y = FMul(Half, posCall.h)

\* x absent and y not a number: x lands on the centre, y on the top edge
C7_Witness ==
  /\ posCall.pc = "done" /\ posCall.posObj.t = "object"
  /\ posCall.posObj.x = JsUndefined /\ posCall.posObj.y = JsStr("abc")
  /\ posCall.out.x = FMul(Half, posCall.w) /\ posCall.out.x # Zero
  /\ posCall.out.y = posCall.h

(* ------------------------------------------------------------------------ *)
(* Background cover-fit properties                                           *)
(* ------------------------------------------------------------------------ *)
\* the rectangle the formulas of the contract give, operation by operation
ContractRect(imgW, imgH, boxW, boxH) ==
  LET sa == FDiv(boxW, imgW)
      sb == FDiv(boxH, imgH)
      sc == IF Lt(sa, sb) THEN sb ELSE sa
      wd == FMul(imgW, sc)
      ht == FMul(imgH, sc)
  IN  [x |-> FDiv(FSub(boxW, wd), Int2F(2)), y |-> FDiv(FSub(boxH, ht), Int2F(2)),
       width |-> wd, height |-> ht]

RectOf(b) == [x |-> b.x, y |-> b.y, width |-> b.width, height |-> b.height]

\* C8: coverRect returns width = imgW*s, height = imgH*s, x = (boxW-width)/2,
\* y = (boxH-height)/2 with s = max(boxW/imgW, boxH/imgH); for (1000, 500, 842,
\* 595) that is width 1190, height 595, x -174, y 0; and drawBackgroundCover
\* draws at the rectangle coverRect gives for the same image and box
C8_CoverRectFormula ==
  /\ stageBg.pc = "drawn" =>
       /\ RectOf(stageBg) = ContractRect(Int2F(stageBg.imgW), Int2F(stageBg.imgH),
                                         Int2F(stageBg.boxW), Int2F(stageBg.boxH))
       /\ (stageBg.imgW = 1000 /\ stageBg.imgH = 500 /\ stageBg.boxW = 842
             /\ stageBg.boxH = 595) =>
            RectOf(stageBg) = [x |-> Int2F(0 - 174), y |-> Zero,
                               width |-> Int2F(1190), height |-> Int2F(595)]
  /\ (stageBg.pc = "drawn" /\ pageBg.pc = "drawn"
        /\ stageBg.imgW = pageBg.imgW /\ stageBg.imgH = pageBg.imgH
        /\ stageBg.boxW = pageBg.boxW /\ stageBg.boxH = pageBg.boxH) =>
       RectOf(pageBg) = RectOf(stageBg)

\* the 1000 x 500 image on the A4 page, on the stage and in the PDF
C8_Witness ==
  /\ stageBg.pc = "drawn" /\ pageBg.pc = "drawn"
  /\ stageBg.imgW = 1000 /\ stageBg.imgH = 500 /\ stageBg.boxW = 842 /\ stageBg.boxH = 595
  /\ pageBg.imgW = 1000 /\ pageBg.imgH = 500 /\ pageBg.boxW = 842 /\ pageBg.boxH = 595
  /\ pageBg.width = Int2F(1190) /\ pageBg.x = Int2F(0 - 174)

XAdd(a, b) == XSub(a, Neg(b))

XAbs(a) == IF a.m < 0 THEN Neg(a) ELSE a

\* the relative rounding allowance 2^(1-MantBits) of a, i.e. a * eps
Allowance(a) == Scale2(a, 1 - MantBits)

\* a >= b * (1 - eps)  and  a <= b * (1 + eps), exactly
GeTol(a, b) == Cmp(XSub(b, a), Allowance(b)) <= 0

LeTol(a, b) == Cmp(XSub(a, b), Allowance(b)) <= 0

\* C9 as stated: the rectangle covers the box exactly and keeps the aspect
\* ratio exactly
C9_CoversBoxExactly ==
  stageBg.pc = "drawn" =>
    LET bw == Int2F(stageBg.boxW)
        bh == Int2F(stageBg.boxH)
        iw == Int2F(stageBg.imgW)
        ih == Int2F(stageBg.imgH)
        rx == stageBg.x
        ry == stageBg.y
        wd == stageBg.width
        ht == stageBg.height
    IN  /\ Le(bw, wd) /\ Le(bh, ht)
        /\ Le(rx, Zero) /\ Le(ry, Zero)
        /\ Cmp(XAdd(rx, wd), bw) >= 0 /\ Cmp(XAdd(ry, ht), bh) >= 0
        /\ (wd = bw \/ ht = bh)
        /\ Neg(rx) = XSub(XAdd(rx, wd), bw) /\ Neg(ry) = XSub(XAdd(ry, ht), bh)
        /\ XMul(wd, ih) = XMul(ht, iw)

\* C9 (amended): the rectangle covers the box and keeps the aspect ratio up
\* to the rounding of the arithmetic, eps = 2^(1-MantBits) (2^-52 in JS):
\* width >= boxW(1-eps), height >= boxH(1-eps), x <= 0 exactly when
\* width >= boxW (and y likewise), x + width >= boxW(1-eps),
\* y + height >= boxH(1-eps), width <= boxW(1+eps) or height <= boxH(1+eps),
\* the two overflows of an axis differ by at most eps times its extent, and
\* |width*imgH - height*imgW| <= eps * height * imgW
C9_CoversBoxUpToRounding ==
  stageBg.pc = "drawn" =>
    LET bw == Int2F(stageBg.boxW)
        bh == Int2F(stageBg.boxH)
        iw == Int2F(stageBg.imgW)
        ih == Int2F(stageBg.imgH)
        rx == stageBg.x
        ry == stageBg.y
        wd == stageBg.width
        ht == stageBg.height
    IN  /\ IsFin(wd) /\ IsFin(ht) /\ IsFin(rx) /\ IsFin(ry)
        /\ GeTol(wd, bw) /\ GeTol(ht, bh)
        /\ (Le(rx, Zero) <=> Le(bw, wd)) /\ (Le(ry, Zero) <=> Le(bh, ht))
        /\ GeTol(XAdd(rx, wd), bw) /\ GeTol(XAdd(ry, ht), bh)
        /\ (LeTol(wd, bw) \/ LeTol(ht, bh))
        /\ Cmp(XAbs(XSub(XSub(bw, wd), Scale2(rx, 1))), Allowance(wd)) <= 0
        /\ Cmp(XAbs(XSub(XSub(bh, ht), Scale2(ry, 1))), Allowance(ht)) <= 0
        /\ Cmp(XAbs(XSub(XMul(wd, ih), XMul(ht, iw))), Allowance(XMul(ht, iw))) <= 0

\* a 23 x 17 image on the A4 page: the scale 842/23 is rounded down and the
\* drawn width falls short of the page width by one unit in the last place
C9_Witness ==
  /\ stageBg.pc = "drawn"
  /\ stageBg.imgW = 23 /\ stageBg.imgH = 17 /\ stageBg.boxW = 842 /\ stageBg.boxH = 595
  /\ Lt(stageBg.width, Int2F(842))
  /\ GeTol(stageBg.width, Int2F(842))

(* ------------------------------------------------------------------------ *)
(* Preview cap                                                               *)
(* ------------------------------------------------------------------------ *)
RowsOfPages(pages) == [i \in 1..Len(pages) |-> pages[i].row]

IsPrefix(p, q) == Len(p) <= Len(q) /\ \A i \in 1..Len(p) : p[i] = q[i]

\* the rows of a request that carry a name and an award, in input order
AcceptedInput(h) ==
  IF h.handler \in {"csv-pdf", "csv-zip"} THEN parseCsvBasic(h.src.file.csv).rows
  ELSE IF h.src.rows_json.kind = "array"
    THEN SelectSeq(NormalizeAll(h.src.rows_json.rows), Accepted)
  ELSE parseCsv(h.src.file.csv).rows

\* the pages are the first n supplied rows, or all of them when fewer
FirstRows(pages, supplied, n) ==
  /\ Len(pages) = Min(n, Len(supplied))
  /\ IsPrefix(RowsOfPages(pages), supplied)

\* C10 as stated: every variant renders at most 5 rows, the first 5 accepted
\* rows in input order
C10_AtMostFiveRows ==
  /\ (http.pc = "done" /\ http.status = 200) =>
       (Len(http.pages) <= 5 /\ FirstRows(http.pages, AcceptedInput(http), 5))
  /\ stageExport.pc = "done" =>
       (Len(stageExport.pages) <= 5 /\ FirstRows(stageExport.pages, stageExport.rows, 5))

\* C10 (amended): the server handlers render at most 5 rows, the first 5
\* accepted rows in input order; the stage exports render the first max rows,
\* where max is 5 unless the caller passes another value
C10_AtMostFiveRowsOrMax ==
  /\ (http.pc = "done" /\ http.status = 200) =>
       (Len(http.pages) <= 5 /\ FirstRows(http.pages, AcceptedInput(http), 5))
  /\ stageExport.pc = "done" =>
       /\ Len(stageExport.pages) <= MaxOrDefault(stageExport.max)
       /\ FirstRows(stageExport.pages, stageExport.rows, MaxOrDefault(stageExport.max))
       /\ stageExport.max = JsUndefined => Len(stageExport.pages) <= 5

\* a rows_json array of more than five accepted rows, answered with five pages
C10_Witness ==
  /\ http.pc = "done" /\ http.status = 200
  /\ http.src.rows_json.kind = "array"
  /\ Len(AcceptedInput(http)) > 5
  /\ Len(http.pages) = 5

InitHex ==
  /\ fit = FitIdle
  /\ posCall = PosNone /\ posPrev = PosNone
  /\ stageBg = BgNone /\ pageBg = BgNone
  /\ http = HttpNone /\ templateCache = [u \in {} |-> "png"] /\ certsBucket = {}
  /\ stageExport = ExportNone
  /\ hexCall = HexNone /\ editor = EditorNone
  /\ doc = DocNone /\ docPrev = DocNone
  /\ LateIdle

NextHex == HexToRgbCall

\* the colour parser applied to every string of HexInputs
SpecHex == InitHex /\ [][NextHex]_vars

InitEditor ==
  /\ fit = FitIdle
  /\ posCall = PosNone /\ posPrev = PosNone
  /\ stageBg = BgNone /\ pageBg = BgNone
  /\ http = HttpNone /\ templateCache = [u \in {} |-> "png"] /\ certsBucket = {}
  /\ stageExport = ExportNone
  /\ hexCall = HexNone
  /\ editor \in { EditorStart(v) : v \in EditorVariants }
  /\ doc = DocNone /\ docPrev = DocNone
  /\ LateIdle

NextEditor ==
  \/ PointerDown \/ PointerMove \/ PointerUp \/ PointerLeave
  \/ StartEditing \/ StopEditing

\* the editor under every order of pointer and editing events
SpecEditor == InitEditor /\ [][NextEditor]_vars

\* the isolate has served nothing yet
InitRender ==
  /\ fit = FitIdle
  /\ posCall = PosNone /\ posPrev = PosNone
  /\ stageBg = BgNone /\ pageBg = BgNone
  /\ http = HttpNone /\ templateCache = [u \in {} |-> "png"] /\ certsBucket = {}
  /\ stageExport = ExportNone
  /\ hexCall = HexNone /\ editor = EditorNone
  /\ doc = DocNone /\ docPrev = DocNone
  /\ LateIdle

NextRender == RenderCdnPreview \/ RenderR2Preview \/ RenderCsvPdf \/ RenderCsvZip

\* the four preview handlers, each with the document it builds
SpecRender == InitRender /\ [][NextRender]_vars

\* the isolate has served nothing yet, or holds one template in its cache
InitRepeat ==
  /\ fit = FitIdle
  /\ posCall = PosNone /\ posPrev = PosNone
  /\ stageBg = BgNone /\ pageBg = BgNone
  /\ http = HttpNone /\ templateCache \in CacheStates /\ certsBucket = {}
  /\ stageExport = ExportNone
  /\ hexCall = HexNone /\ editor = EditorNone
  /\ doc = DocNone /\ docPrev = DocNone
  /\ LateIdle

NextRepeat == RepeatCdnPreview \/ RepeatR2Preview

\* one isolate, two preview requests one after the other
SpecRepeat == InitRepeat /\ [][NextRepeat]_vars

NextReorder == ReorderCdnPreview \/ ReorderR2Preview \/ ReorderCsvPdf \/ ReorderCsvZip

\* one isolate, two preview requests whose rows differ
SpecReorder == InitRender /\ [][NextReorder]_vars


\* every part of the program idle but the ones a specification starts
EarlyIdle ==
  /\ fit = FitIdle
  /\ posCall = PosNone /\ posPrev = PosNone
  /\ stageBg = BgNone /\ pageBg = BgNone
  /\ http = HttpNone /\ templateCache = [u \in {} |-> "png"] /\ certsBucket = {}
  /\ stageExport = ExportNone
  /\ hexCall = HexNone /\ editor = EditorNone
  /\ doc = DocNone /\ docPrev = DocNone

NextFetch ==
  \/ \E c \in FetchCalls, url \in TemplateUrls : FetchStart(c, url)
  \/ \E c \in FetchCalls : FetchRespond(c)
  \/ \E c \in FetchCalls : FetchStore(c)

\* one isolate with an empty cache, MaxCalls requests in any interleaving
SpecFetch == InitIdle /\ [][NextFetch]_vars

InitSnap ==
  /\ EarlyIdle
  /\ fetches = FetchesNone /\ snap \in SnapStarts /\ texts = TextsNone
  /\ upload = UploadNone /\ dl = DlNone /\ listing = ListingNone

NextSnap == ExportStart \/ SnapshotCall \/ UserSelect \/ RunEffect \/ Capture \/ Encode

\* one export from the stage, row by row, while the user may click
SpecSnap == InitSnap /\ [][NextSnap]_vars

InitTexts ==
  /\ EarlyIdle
  /\ fetches = FetchesNone /\ snap = SnapNone /\ texts \in TextStarts
  /\ upload = UploadNone /\ dl = DlNone /\ listing = ListingNone

NextTexts == EditStart \/ OverlayFocus \/ EditType \/ KeyEscape \/ KeyEnter \/ FieldBlur

\* the text fields of either editor under any sequence of edits
SpecTexts == InitTexts /\ [][NextTexts]_vars

InitUpload ==
  /\ EarlyIdle
  /\ fetches = FetchesNone /\ snap = SnapNone /\ texts = TextsNone
  /\ upload = UploadStart /\ dl = DlNone /\ listing = ListingNone

NextUpload == HandleUpload \/ ReadSettles

\* upload mode: up to MaxUploads selections, their reads settling in any order
SpecUpload == InitUpload /\ [][NextUpload]_vars

NextDownload == Download

\* the download endpoint on every key of DownloadKeys and every bucket
SpecDownload == InitIdle /\ [][NextDownload]_vars

NextListing == ListRequest

\* the listing endpoint on every bucket made of the listable keys
SpecListing == InitIdle /\ [][NextListing]_vars
(* ------------------------------------------------------------------------ *)
(* Colour parsing properties                                                 *)
(* ------------------------------------------------------------------------ *)
\* the colour string without surrounding blanks and without its leading '#'
HexBody(hex) ==
  LET raw == Trim(hex.s)
  IN  IF Len(raw) > 0 /\ raw[1] = "#" THEN Drop(raw, 1) ELSE raw

AllHex(b) == \A i \in 1..Len(b) : HexDigit(b[i]) >= 0

\* #RRGGBB or the 3-digit shorthand
WellFormedHex(hex) ==
  hex.t = "string" /\ Len(HexBody(hex)) \in {3, 6} /\ AllHex(HexBody(hex))

\* the i-th byte (1 = red, 2 = green, 3 = blue) of a well-formed body
ByteOf(b, i) ==
  IF Len(b) = 3 THEN 17 * HexDigit(b[i])
  ELSE 16 * HexDigit(b[2 * i - 1]) + HexDigit(b[2 * i])

Channel(n) == FDiv(Int2F(n), Int2F(255))

Black == rgb(Zero, Zero, Zero)

InUnitInterval(x) == Le(Zero, x) /\ Le(x, One)

\* the number a string of hex digits denotes, last digit first
RECURSIVE HexValue(_)
HexValue(b) ==
  IF Len(b) = 0 THEN 0
  ELSE 16 * HexValue(SubSeq(b, 1, Len(b) - 1)) + HexDigit(b[Len(b)])

WellFormedResult ==
  WellFormedHex(hexCall.hex) =>
    LET b == HexBody(hexCall.hex)
    IN  hexCall.out = rgb(Channel(ByteOf(b, 1)), Channel(ByteOf(b, 2)), Channel(ByteOf(b, 3)))

ChannelsInRange ==
  /\ InUnitInterval(hexCall.out.r)
  /\ InUnitInterval(hexCall.out.g)
  /\ InUnitInterval(hexCall.out.b)

InUnitSquare(p) == InUnitInterval(p.x) /\ InUnitInterval(p.y)

Rendered == doc.pc = "done" /\ doc.status = 200

\* the drawing instructions of a page that belong to a field
FieldOps(page, field) ==
  LET IsField(o) == o.field = field
  IN  SelectSeq(page.ops, IsField)

\* the accepted rows a document has pages for
PageRows == Slice(AcceptedInput(http), 5)

\* C11: a successful render has exactly one page per accepted row (at most
\* 5), in row order, and page i draws the name of the i-th accepted row once
C11_OnePagePerAcceptedRow ==
  Rendered =>
    /\ Len(doc.pages) = Len(PageRows)
    /\ \A i \in 1..Len(doc.pages) :
         /\ Len(FieldOps(doc.pages[i], "name")) = 1
         /\ FieldOps(doc.pages[i], "name")[1].text = PageRows[i].name

\* a row without a name came first and was dropped: the only page is Bob's
C11_Witness ==
  /\ Rendered /\ doc.handler = "cdn"
  /\ doc.req.src.rows_json.rows = <<RawNoName, RawBob>>
  /\ Len(doc.pages) = 1
  /\ FieldOps(doc.pages[1], "name")[1].text = "Bob"

IsWatermark(o, page) ==
  /\ o.op = "drawText" /\ o.text = WatermarkText
  /\ DOMAIN o = {"op", "field", "text", "x", "y", "size", "font", "color", "rotate", "opacity"}
  /\ o.x = Int2F(40) /\ o.y = Round(XMul(page.h, Dec(35, 100)))
  /\ o.size = 22 /\ o.rotate = 25 /\ o.opacity = Dec(35, 100)

Last(seq) == seq[Len(seq)]

\* C12 as stated: in every variant the watermark is the last drawing
\* instruction of every page, with constant position, size, rotation, opacity
C12_WatermarkLastEverywhere ==
  Rendered =>
    \A i \in 1..Len(doc.pages) :
      /\ Len(doc.pages[i].ops) > 0
      /\ IsWatermark(Last(doc.pages[i].ops), doc.pages[i])

\* C12: every page carries the watermark exactly once with constant position
\* (40, 0.35*h), size 22, rotation 25 and opacity 0.35; it is the last
\* instruction of the page except in the file-only PDF handler, where the
\* page-number footer is drawn after it
C12_WatermarkLastButFooter ==
  Rendered =>
    \A i \in 1..Len(doc.pages) :
      LET ops == doc.pages[i].ops
          n == Len(ops)
      IN  /\ Len(FieldOps(doc.pages[i], "watermark")) = 1
          /\ IF doc.handler = "csv-pdf"
               THEN /\ n >= 2
                    /\ IsWatermark(ops[n - 1], doc.pages[i])
                    /\ ops[n].field = "footer"
               ELSE n >= 1 /\ IsWatermark(ops[n], doc.pages[i])

\* a page of the file-only PDF handler: watermark, then footer
C12_Witness ==
  /\ Rendered /\ doc.handler = "csv-pdf" /\ Len(doc.pages) = 2
  /\ Last(doc.pages[2].ops).text = "Preview page 2 of 2"
  /\ doc.pages[2].ops[Len(doc.pages[2].ops) - 1].text = WatermarkText

\* the page rows of the document paired with the form of the request
TemplateHandlers == {"cdn", "r2"}

ResolvedText(field, row, form, handler) ==
  CASE field = "certTitle" ->
         IF form.certificate_title # "" THEN form.certificate_title
         ELSE IF handler = "cdn" THEN "Certificate of Achievement" ELSE "Certificate"
    [] field = "subtitle" -> form.subtitle
    [] field = "description" -> form.description
    [] field = "name" -> row.name
    [] field = "award" -> row.award
    [] field = "date" ->
         IF row.date # "" THEN "Date: " \o row.date
         ELSE IF form.date_text # "" THEN "Date: " \o form.date_text ELSE ""
    [] OTHER -> IF row.issuer # "" THEN row.issuer ELSE form.issuer

DrawnOnce(page, field, text) ==
  Len(FieldOps(page, field)) = 1 /\ FieldOps(page, field)[1].text = text

NeverDrawn(page, text) ==
  \A j \in 1..Len(page.ops) : page.ops[j].op = "drawText" => page.ops[j].text # text

\* C14 as stated: every field of the fixed field set with a non-empty
\* resolved text, subtitle and description included, is drawn on every page
C14_AllSevenFieldsDrawn ==
  (Rendered /\ doc.handler \in TemplateHandlers) =>
    \A i \in 1..Len(doc.pages), field \in FieldKeys :
      LET text == ResolvedText(field, PageRows[i], doc.req.form, doc.handler)
      IN  text # "" => DrawnOnce(doc.pages[i], field, text)

\* C14: the handler draws five fields, certTitle, name, award, date and
\* issuer, each once per page when its resolved text is non-empty; the
\* subtitle and description the editor sends are never read: no page carries
\* a drawing instruction for them
C14_FiveFieldsDrawn ==
  (Rendered /\ doc.handler \in TemplateHandlers) =>
    \A i \in 1..Len(doc.pages) :
      /\ \A field \in FieldKeys \ {"subtitle", "description"} :
           LET text == ResolvedText(field, PageRows[i], doc.req.form, doc.handler)
           IN  IF text # "" THEN DrawnOnce(doc.pages[i], field, text)
               ELSE Len(FieldOps(doc.pages[i], field)) = 0
      /\ \A field \in {"subtitle", "description"} :
           /\ Len(FieldOps(doc.pages[i], field)) = 0
           /\ doc.req.form[field] # "" => NeverDrawn(doc.pages[i], doc.req.form[field])

\* a request with a subtitle and a description whose pages show neither
C14_Witness ==
  /\ Rendered /\ doc.handler = "r2" /\ Len(doc.pages) = 2
  /\ doc.req.form.subtitle = "Presented to" /\ doc.req.form.description = "for merit"
  /\ \A i \in 1..2 : NeverDrawn(doc.pages[i], "Presented to")
  /\ \A i \in 1..2 : DrawnOnce(doc.pages[i], "certTitle", "Diploma")

\* a truthy font id that is no string
NonStringFont(style, field) ==
  LET font == StyleFont(style, field)
  IN  font.t = "number" /\ ~IsNaN(font.n) /\ Sgn(font.n) # 0

\* the request has a known template in a format the handler embeds, a valid
\* paper size and at least one accepted row
ValidOtherwise ==
  /\ doc.req.paper_size \in {"A4", "LETTER"}
  /\ Len(PageRows) > 0
  /\ IF doc.handler = "cdn"
       THEN /\ doc.req.template_id \in {"kids-fantasy-1", "professional"}
            /\ doc.req.env.fetchOk /\ doc.req.env.fetched = "png"
       ELSE /\ doc.req.env.exists
            /\ \/ doc.req.template_key = "templates/bg.png" /\ doc.req.env.stored = "png"
               \/ doc.req.template_key = "templates/bg.jpg" /\ doc.req.env.stored = "jpg"

UnsupportedTemplate ==
  IF doc.handler = "cdn"
    THEN doc.req.env.fetchOk /\ doc.req.env.fetched \notin {"png", "jpg"}
    ELSE doc.req.env.exists /\
         (doc.req.env.stored \notin {"png", "jpg"} \/
          doc.req.template_key \notin {"templates/bg.png", "templates/bg.jpg"})

\* C18: a template that is not a PNG or JPEG makes the whole request fail
\* with an error response; no page is added and nothing is drawn
C18_UnsupportedFormatRejected ==
  (doc.pc = "done" /\ doc.handler \in TemplateHandlers /\ UnsupportedTemplate) =>
    /\ doc.status \in {400, 404, 500}
    /\ doc.pages = <<>>
    /\ http.pages = <<>>

\* a WebP template under a valid key, paper size and rows: a 500, no page
C18_Witness ==
  /\ doc.pc = "done" /\ doc.handler = "r2"
  /\ doc.req.template_key = "templates/bg.webp" /\ doc.req.env.exists
  /\ doc.req.paper_size = "A4" /\ Len(PageRows) = 2
  /\ doc.status = 500 /\ doc.pages = <<>>

\* the keys a document looked up, and the positions of the lookups of a key
KeysOf(d) == { d.lookups[i].key : i \in 1..Len(d.lookups) }

LookupsOf(d, key) == { i \in 1..Len(d.lookups) : d.lookups[i].key = key }

Misses(d, key) == { i \in LookupsOf(d, key) : ~d.lookups[i].hit }

\* within one document every key is embedded on its first lookup and on no
\* other, every lookup of the key hands back that one font of the document,
\* and the document holds the watermark font and one font per key
WriteOnce(d) ==
  /\ \A key \in KeysOf(d) :
       LET first == CHOOSE i \in LookupsOf(d, key) : \A j \in LookupsOf(d, key) : i <= j
       IN  /\ Misses(d, key) = {first}
           /\ \A j \in LookupsOf(d, key) : d.lookups[j].font = d.lookups[first].font
           /\ d.lookups[first].font \in 2..Len(d.fonts)
           /\ d.fonts[d.lookups[first].font] = fontNameForKey(key)
  /\ \A k1, k2 \in KeysOf(d) :
       k1 # k2 => \A i \in LookupsOf(d, k1), j \in LookupsOf(d, k2) :
                    d.lookups[i].font # d.lookups[j].font
  /\ Len(d.fonts) = (IF d.status = 200 \/ d.lookups # <<>> THEN 1 ELSE Len(d.fonts))
                      + Cardinality(KeysOf(d))

Asked(d) ==
  IF d.handler = "cdn"
    THEN <<d.req.src, d.req.form, d.req.paper_size, d.req.template_id>>
    ELSE <<d.req.src, d.req.form, d.req.paper_size, d.req.template_key, d.req.img>>

\* C19: two preview requests of one handler with the same rows, positions,
\* styles, paper size and template give the same answer and, when both are
\* answered with a PDF, the same drawing instructions page by page, whether
\* or not the template bytes came out of the cache of an earlier request
C19_SameRequestSameInstructions ==
  (docPrev.pc = "done" /\ doc.pc = "done" /\ doc.handler = docPrev.handler
     /\ Asked(doc) = Asked(docPrev)) =>
    /\ doc.req = docPrev.req => doc.status = docPrev.status
    /\ (doc.status = 200 /\ docPrev.status = 200) =>
         /\ doc.pages = docPrev.pages
         /\ doc.fonts = docPrev.fonts

\* the first request fetches the template, the second finds it in the cache
C19_Witness ==
  /\ docPrev.pc = "done" /\ doc.pc = "done" /\ doc.handler = "cdn"
  /\ doc.req = docPrev.req
  /\ ~docPrev.cached /\ doc.cached
  /\ doc.status = 200 /\ Len(doc.pages) = 2 /\ doc.pages = docPrev.pages

(* ------------------------------------------------------------------------ *)
(* Rows and pages                                                            *)
(* ------------------------------------------------------------------------ *)
\* the accepted rows a finished request has pages for
PageRowsOf(d) == Slice(AcceptedInput([handler |-> d.handler, src |-> d.req.src]), 5)

\* a drawing instruction with the font it names in place of the handle
WithFontName(d, o) ==
  IF "font" \in DOMAIN o THEN [o EXCEPT !.font = d.fonts[o.font]] ELSE o

\* page i of a document, fonts by name
PageOf(d, i) ==
  [w |-> d.pages[i].w, h |-> d.pages[i].h,
   ops |-> [k \in 1..Len(d.pages[i].ops) |-> WithFontName(d, d.pages[i].ops[k])]]

\* the page without its last drawing instruction
WithoutLast(page) == [page EXCEPT !.ops = SubSeq(@, 1, Len(@) - 1)]

\* what two requests share when they differ in their rows only
AskedButRows(d) ==
  IF d.handler \in {"csv-pdf", "csv-zip"} THEN <<d.req.paper_size, d.req.template_id>>
  ELSE IF d.handler = "cdn" THEN <<d.req.form, d.req.paper_size, d.req.template_id>>
  ELSE <<d.req.form, d.req.paper_size, d.req.template_key, d.req.img>>

BothRendered ==
  /\ docPrev.pc = "done" /\ doc.pc = "done"
  /\ docPrev.status = 200 /\ doc.status = 200
  /\ doc.handler = docPrev.handler /\ AskedButRows(doc) = AskedButRows(docPrev)

\* C21 as stated: in every handler the page of a row is the same wherever
\* the row stands and whatever the other rows are
C21_PageDependsOnRowOnly ==
  BothRendered =>
    \A i \in 1..Len(doc.pages), j \in 1..Len(docPrev.pages) :
      PageRowsOf(doc)[i] = PageRowsOf(docPrev)[j] => PageOf(doc, i) = PageOf(docPrev, j)

\* C21: the page of a row depends on the row, the form, the page size and the
\* background only, in the handlers that draw a template image and in the ZIP
\* handler; in the CSV-only PDF handler this holds for every instruction but
\* the last, the footer, whose text is "Preview page i of n" with the row's
\* index i and the number n of rows
C21_PageDependsOnRowButFooter ==
  /\ BothRendered =>
       \A i \in 1..Len(doc.pages), j \in 1..Len(docPrev.pages) :
         PageRowsOf(doc)[i] = PageRowsOf(docPrev)[j] =>
           IF doc.handler = "csv-pdf"
             THEN WithoutLast(PageOf(doc, i)) = WithoutLast(PageOf(docPrev, j))
             ELSE PageOf(doc, i) = PageOf(docPrev, j)
  /\ (doc.pc = "done" /\ doc.status = 200 /\ doc.handler = "csv-pdf") =>
       \A i \in 1..Len(doc.pages) :
         Last(doc.pages[i].ops).text =
           "Preview page " \o IntStr(i) \o " of " \o IntStr(Len(doc.pages))

\* Ann's row second of two, then first of three: the same page in the
\* handler that reads the template from R2, although the date font is
\* embedded at another point
C21_Witness ==
  /\ BothRendered /\ doc.handler = "r2" /\ doc.req.form = LateFontForm
  /\ docPrev.req.src = ArraySource(<<RawBob, RawAnn>>)
  /\ doc.req.src = ArraySource(<<RawAnn, RawBob>>)
  /\ PageOf(doc, 1) = PageOf(docPrev, 2)
  /\ FieldOps(doc.pages[1], "date")[1].font # FieldOps(docPrev.pages[2], "date")[1].font

(* ------------------------------------------------------------------------ *)
(* rows_json and the uploaded file                                           *)
(* ------------------------------------------------------------------------ *)
TemplatePreview == http.pc = "done" /\ http.handler \in {"cdn", "r2"}

\* the rows a list of raw rows gives pages for
RowsFromJson(rows) == Slice(SelectSeq(NormalizeAll(rows), Accepted), 5)

StartedAfterSuccess(c) == fetches[c].pc # "idle" /\ fetches[c].after

\* the step in which call c throws
Throws(c) == fetches[c].pc # "thrown" /\ fetches'[c].pc = "thrown"

\* C23: a call that starts after a call for the same URL has succeeded returns
\* the cached bytes without a network fetch; a call that throws stores nothing
\* and leaves the cache as it was, so a later call for a URL that is not
\* cached fetches again; in every interleaving of the calls
C23_CacheHoldsSuccessfulFetchesOnly ==
  /\ [](\A c \in FetchCalls :
          /\ StartedAfterSuccess(c) =>
               /\ fetches[c].pc = "returned" /\ ~fetches[c].fetched
               /\ fetches[c].bytes = fetches[c].cached
          /\ (fetches[c].pc # "idle" /\ ~fetches[c].hit) => fetches[c].fetched
          /\ \A u \in DOMAIN templateCache :
               \E o \in FetchCalls :
                 /\ fetches[o].pc = "returned" /\ fetches[o].fetched
                 /\ fetches[o].url = u /\ fetches[o].bytes = templateCache[u])
  /\ [][\A c \in FetchCalls : Throws(c) => templateCache' = templateCache]_vars

\* a fetch failed and left the cache empty, a second call for the URL fetched
\* again and succeeded, a third call was served from the cache
C23_Witness ==
  \E a, b, c \in FetchCalls :
    /\ fetches[a].pc = "thrown" /\ fetches[b].pc = "returned" /\ fetches[c].pc = "returned"
    /\ fetches[a].url = fetches[b].url /\ fetches[b].url = fetches[c].url
    /\ fetches[b].fetched /\ ~fetches[b].hit
    /\ fetches[c].after /\ ~fetches[c].fetched
    /\ fetches[c].bytes = templateCache[fetches[c].url]

(* ------------------------------------------------------------------------ *)
(* The stage snapshot                                                        *)
(* ------------------------------------------------------------------------ *)
\* C24: the stage is captured only while the selection is empty and the
\* transformer detached and hidden, and when snapshotStagePngBytes is left,
\* by return or by an exception, the selection is the one of the call and the
\* transformer is visible again
C24_CaptureCleanAndRestored ==
  snap.pc # "none" =>
    /\ snap.shot.taken =>
         /\ snap.shot.selectedId = "" /\ snap.shot.trNodes = ""
         /\ ~snap.shot.trVisible
    /\ snap.ret.ended =>
         /\ snap.ret.selectedId = snap.ret.atCall
         /\ snap.hasTr => snap.ret.trVisible

(* ------------------------------------------------------------------------ *)
(* Editing a field's text                                                    *)
(* ------------------------------------------------------------------------ *)
\* the text a commit of value stores in the state of fieldKey
Committed(fieldKey, value) ==
  IF fieldKey = "date" THEN Trim(StripDatePrefix(RemoveCr(value))) ELSE RemoveCr(value)

OnCanvas == texts.pc = "mounted" /\ texts.variant = "canvas"

C29_CommitDisplayedIsNoOp ==
  (texts.pc = "mounted" /\ texts.variant = "overlay") =>
    \A f \in TextFields :
      updateText(texts.st, f, InnerTextOf(RenderedText(getFieldText(texts, f)))) = texts.st

(* ------------------------------------------------------------------------ *)
(* Dragging and editing a canvas field                                       *)
(* ------------------------------------------------------------------------ *)
\* the fields whose stored position a step changes
Moved == { f \in DOMAIN editor.pos : editor'.pos[f] # editor.pos[f] }

\* C26: a canvas field is never dragging and editing at once; no step starts
\* a drag of a field that is being edited; a position changes only in a step
\* taken while the field is dragging, and no other position changes with it
C26_NeverDraggingWhileEditing ==
  /\ [](editor.variant = "app" => editor.dragging \cap editor.editing = {})
  /\ [][editor.variant = "app" =>
          /\ \A f \in editor.editing : f \notin editor.dragging => f \notin editor'.dragging
          /\ \A f \in Moved : f \in editor.dragging /\ Moved = {f}]_vars

(* ------------------------------------------------------------------------ *)
(* Upload mode                                                               *)
(* ------------------------------------------------------------------------ *)
AllReadsSettled ==
  /\ upload.pc = "mounted" /\ Len(upload.reads) > 0
  /\ upload.settled = 1..Len(upload.reads)

\* C27: once every read has settled, rows and error are those of the file
\* selected last: its rows and no error if it parsed, no rows and its error
\* otherwise
C27_LatestFileWins ==
  AllReadsSettled =>
    LET parsed == ParseUpload(upload.reads[Len(upload.reads)])
    IN  /\ upload.uploadFile = <<upload.reads[Len(upload.reads)]>>
        /\ upload.rows = parsed.rows
        /\ upload.error = parsed.error

(* ------------------------------------------------------------------------ *)
(* The download endpoint                                                     *)
(* ------------------------------------------------------------------------ *)
\* C28: 400 when the key is missing, 404 when nothing is stored under the
\* decoded key, otherwise a success response with the bytes of the object
C28_DownloadAnswers ==
  dl.pc = "done" =>
    LET dec == decodeURIComponent(dl.key)
        obj == BucketGet(dl.bucket, dec.s)
    IN  /\ dl.key = <<>> => dl.out.thrown = "" /\ dl.out.status = 400
        /\ (dl.key # <<>> /\ dec.ok /\ ~obj.found) =>
             dl.out.thrown = "" /\ dl.out.status = 404
        /\ (dl.key # <<>> /\ dec.ok /\ obj.found) =>
             /\ dl.out.thrown = "" /\ dl.out.status = 200
             /\ dl.out.body = obj.bytes

(* ------------------------------------------------------------------------ *)
(* The template listing                                                      *)
(* ------------------------------------------------------------------------ *)
DirectlyUnderPrefix(key) ==
  /\ Len(key) > Len(PREFIX) /\ SubSeq(key, 1, Len(PREFIX)) = PREFIX
  /\ \A i \in (Len(PREFIX) + 1)..Len(key) : key[i] # "/"

\* C30: every listed template is an image file directly under the prefix,
\* has an id no other listed template has, and has a format the preview
\* handler accepts
C30_ListedTemplatesRenderable ==
  listing.pc = "done" =>
    \A i \in 1..Len(listing.templates) :
      /\ DirectlyUnderPrefix(listing.templates[i].key)
      /\ MatchedExt(listing.templates[i].key) # <<>>
      /\ \A j \in 1..Len(listing.templates) :
           j # i => listing.templates[j].id # listing.templates[i].id
      /\ PreviewAccepts(listing.templates[i].key)

====
